---- MODULE Spec2Model ----
(***************************************************************************)
(* Dependency resolution and deployment ordering of solution.js.           *)
(*                                                                         *)
(*  - Topological Sequencer (topologicallySortItems): specification        *)
(*    SpecSort.  Its implementation is not among the sources; only its     *)
(*    tests are (test "supporting routine: get cloning order").  It is     *)
(*    modelled from the design document, section 4.3: removal of           *)
(*    zero-in-degree items, ties broken by input order.  The keys of the   *)
(*    input are numbered by their position in the input.                   *)
(*  - Dependency Resolver (createItemTemplate, _replaceTemplate):          *)
(*    specifications Spec and SpecReplace.  Every callback of              *)
(*    createItemTemplate is one action; the collaborators complete in      *)
(*    any order and with any outcome.                                      *)
(*  - Reference Templatizer (templatizeTerm, replaceInTemplate) as the      *)
(*    group module uses it: specification SpecTemplatize; and              *)
(*    _checkedReplaceAll: specification SpecChecked.  The three functions  *)
(*    are not among the sources and are modelled from the design           *)
(*    document, section 4.2, and from the tests of _checkedReplaceAll.     *)
(***************************************************************************)
EXTENDS Integers, Sequences, FiniteSets, TLC

VARIABLES
  \* ---- Topological Sequencer ----
  numItems,          \* number of keys of the input hash; key k is the k-th key in input order
  dependencies,      \* dependencies[k]: the dependencies of item k, a set of unique ids
  sortPc,            \* "idle" | "build" | "sorting" | "finished"
  inDegree,          \* working in-degree of every key
  buildList,         \* the list under construction
  run,               \* number of the current call of topologicallySortItems
  results,           \* results[r]: outcome of call r
  \* ---- Dependency Resolver ----
  existingTemplates, \* the shared list of templates
  calls,             \* one record per createItemTemplate call
  rootCalls,         \* number of calls made by the outside caller
  fetchCount,        \* fetchCount[id]: number of getItem calls issued for id
  convertCount,      \* convertCount[id]: number of converter calls issued for id
  groupFetchCount,   \* groupFetchCount[id]: number of getGroup calls issued for id
  \* ---- _replaceTemplate called on its own ----
  templates,         \* the list handed to _replaceTemplate, changed in place
  replacePc,         \* "idle" | "build" | "called"
  replaceArgs,       \* the arguments of the call: the list as it was, id, template
  replaceReturn,     \* the value returned
  \* ---- Reference Templatizer: the id of a group, templatized and replaced ----
  groupPc,           \* "idle" | "source" | "templatized" | "creating" | "created" | "failed"
  sourceId,          \* the id of the source group (the term, and the key of the dictionary)
  payload,           \* the text before templatizing
  newItemTemplate,   \* the text as it goes through templatizing and replacing
  templateDictionary,\* templateDictionary[id]: the new id of source id, or NoEntry
  \* ---- _checkedReplaceAll called on its own ----
  checkedPc,         \* "idle" | "ready" | "called"
  checkedArgs,       \* the arguments of the call: template, oldValue, newValue
  checkedReturn,     \* the value returned
  \* ---- _getNewItemId and _updateGroupReferences called on their own ----
  deployerPc,        \* "idle" | "ready" | "gotNewItemId" | "updatedGroupReferences"
  deployerArgs,      \* the arguments: sourceId, itemTemplates, templateDictionary
  deployerReturn,    \* the value returned
  \* ---- Deployment Replayer: the templates of an order, created one by one ----
  deployTemplates,   \* the templates in deploy order
  templateDict,      \* the template dictionary: the entry of each source id, NoEntry where there is none
  steps,             \* steps[k]: "pending" | "creating" | "copying" | "done" | "createFailed" | "copyFailed"
  newItemTemplates,  \* newItemTemplates[k]: the copy of template k that its step works on
  dictionaryWrites,  \* dictionaryWrites[id]: number of writes under the key id
  createdGroups,     \* the ids of the groups created in the destination
  deployOutcome,     \* what the caller of the deployment was told
  \* ---- copyFilesFromStorageItem: the copies of the files of one item ----
  filePaths,         \* the file paths handed to copyFilesFromStorageItem, by their type
  clock,             \* the time in milliseconds
  copies,            \* copies[k]: the timer and the copy call of file path k
  copyFilesResult,   \* "notCalled" | "pending" | "resolved" | "rejected"
  \* ---- Storage names: a resource name made unique for the storage item, and back ----
  storagePc,         \* "idle" | "source" | "stored" | "restored"
  resourceArgs,      \* the item id and the resource name of the source item
  storageFilename,   \* what generateResourceStorageFilename returned
  deployFilename,    \* what generateResourceFilenameFromStorage returned
  \* ---- copyFilesToStorageItem: the copies of the files of one item into the storage item ----
  sourceFilePaths,   \* the file paths handed to copyFilesToStorageItem
  fileCopies,        \* fileCopies[k]: the copyResource call of file path k and the promise of the file
  toStorageResult,   \* the promise that copyFilesToStorageItem returned
  \* ---- deploySolution: the deployment of a Solution Template item ----
  solutionArgs,      \* the arguments of deploySolution: maybeModel and whether options has a progressCallback
  solutionPc,        \* "idle" | "notCalled" | "getTemplateItem" | "getMetadata" | "deploying" | "failing" | "settled"
  progressCalls,     \* the values progressCallback has been called with, in order
  invoked,           \* the collaborators that have been called
  pendingError,      \* the error on its way to the rejection handler
  solutionResult,    \* the promise that deploySolution returned
  \* ---- Group converter: convertItemToTemplate of the group module ----
  converterArgs,     \* itemInfo, the group handed to the converter
  converterPc,       \* "idle" | "notCalled" | the collaborator the converter waits for | "settled"
  groupTemplate,     \* the template the converter is building
  issued,            \* the collaborators called, in the order of the calls
  responses,         \* responses[name]: how the collaborator call settled, and with what
  converterResult,   \* the promise that the converter returned
  \* ---- createStoryMap ----
  storyModel,        \* the model: the id of its item and whether it still has its properties hash
  storyPc,           \* what the call of createStoryMap waits for
  storyResources,    \* the well-known resources generated from the model
  storyIssued,       \* the requests made, in the order they were made
  storyResponses,    \* what each request has settled with
  storyResult,       \* the promise createStoryMap returns
  \* ---- storeItemResources, in its two implementations ----
  storeArgs,         \* the implementation called and the item template handed to it
  storePc,           \* what the call of storeItemResources waits for
  storeResponse,     \* how getItemResources settled, and with what
  storeResult        \* the promise storeItemResources returned

sortVars == <<numItems, dependencies, sortPc, inDegree, buildList, run, results>>
resolverVars == <<existingTemplates, calls, rootCalls, fetchCount, convertCount, groupFetchCount>>
replaceVars == <<templates, replacePc, replaceArgs, replaceReturn>>
templatizeVars == <<groupPc, sourceId, payload, newItemTemplate, templateDictionary>>
checkedVars == <<checkedPc, checkedArgs, checkedReturn>>
deployerVars == <<deployerPc, deployerArgs, deployerReturn>>
replayerVars == <<deployTemplates, templateDict, steps, newItemTemplates, dictionaryWrites, createdGroups, deployOutcome>>
copyFilesVars == <<filePaths, clock, copies, copyFilesResult>>
storageNameVars == <<storagePc, resourceArgs, storageFilename, deployFilename>>
toStorageVars == <<sourceFilePaths, fileCopies, toStorageResult>>
solutionVars == <<solutionArgs, solutionPc, progressCalls, invoked, pendingError, solutionResult>>
converterVars == <<converterArgs, converterPc, groupTemplate, issued, responses, converterResult>>
storyMapVars == <<storyModel, storyPc, storyResources, storyIssued, storyResponses, storyResult>>
storeResourcesVars == <<storeArgs, storePc, storeResponse, storeResult>>
vars == <<numItems, dependencies, sortPc, inDegree, buildList, run, results,
          existingTemplates, calls, rootCalls, fetchCount, convertCount, groupFetchCount,
          templates, replacePc, replaceArgs, replaceReturn,
          groupPc, sourceId, payload, newItemTemplate, templateDictionary,
          checkedPc, checkedArgs, checkedReturn,
          deployerPc, deployerArgs, deployerReturn,
          deployTemplates, templateDict, steps, newItemTemplates, dictionaryWrites, createdGroups, deployOutcome,
          filePaths, clock, copies, copyFilesResult,
          storagePc, resourceArgs, storageFilename, deployFilename,
          sourceFilePaths, fileCopies, toStorageResult,
          solutionArgs, solutionPc, progressCalls, invoked, pendingError, solutionResult,
          converterArgs, converterPc, groupTemplate, issued, responses, converterResult,
          storyModel, storyPc, storyResources, storyIssued, storyResponses, storyResult,
          storeArgs, storePc, storeResponse, storeResult>>

\* What the actions of one part leave unchanged: the variables of the others.
notSortVars == <<resolverVars, replaceVars, templatizeVars, checkedVars, deployerVars, replayerVars, copyFilesVars, storageNameVars, toStorageVars, solutionVars, converterVars, storyMapVars, storeResourcesVars>>
notResolverVars == <<sortVars, replaceVars, templatizeVars, checkedVars, deployerVars, replayerVars, copyFilesVars, storageNameVars, toStorageVars, solutionVars, converterVars, storyMapVars, storeResourcesVars>>
notReplaceVars == <<sortVars, resolverVars, templatizeVars, checkedVars, deployerVars, replayerVars, copyFilesVars, storageNameVars, toStorageVars, solutionVars, converterVars, storyMapVars, storeResourcesVars>>
notTemplatizeVars == <<sortVars, resolverVars, replaceVars, checkedVars, deployerVars, replayerVars, copyFilesVars, storageNameVars, toStorageVars, solutionVars, converterVars, storyMapVars, storeResourcesVars>>
notCheckedVars == <<sortVars, resolverVars, replaceVars, templatizeVars, deployerVars, replayerVars, copyFilesVars, storageNameVars, toStorageVars, solutionVars, converterVars, storyMapVars, storeResourcesVars>>
notDeployerVars == <<sortVars, resolverVars, replaceVars, templatizeVars, checkedVars, replayerVars, copyFilesVars, storageNameVars, toStorageVars, solutionVars, converterVars, storyMapVars, storeResourcesVars>>
notReplayerVars == <<sortVars, resolverVars, replaceVars, templatizeVars, checkedVars, deployerVars, copyFilesVars, storageNameVars, toStorageVars, solutionVars, converterVars, storyMapVars, storeResourcesVars>>
notCopyFilesVars == <<sortVars, resolverVars, replaceVars, templatizeVars, checkedVars, deployerVars, replayerVars, storageNameVars, toStorageVars, solutionVars, converterVars, storyMapVars, storeResourcesVars>>
notStorageNameVars == <<sortVars, resolverVars, replaceVars, templatizeVars, checkedVars, deployerVars, replayerVars, copyFilesVars, toStorageVars, solutionVars, converterVars, storyMapVars, storeResourcesVars>>
notToStorageVars == <<sortVars, resolverVars, replaceVars, templatizeVars, checkedVars, deployerVars, replayerVars, copyFilesVars, storageNameVars, solutionVars, converterVars, storyMapVars, storeResourcesVars>>
notSolutionVars == <<sortVars, resolverVars, replaceVars, templatizeVars, checkedVars, deployerVars, replayerVars, copyFilesVars, storageNameVars, toStorageVars, converterVars, storyMapVars, storeResourcesVars>>
notConverterVars == <<sortVars, resolverVars, replaceVars, templatizeVars, checkedVars, deployerVars, replayerVars, copyFilesVars, storageNameVars, toStorageVars, solutionVars, storyMapVars, storeResourcesVars>>
notStoryMapVars == <<sortVars, resolverVars, replaceVars, templatizeVars, checkedVars, deployerVars, replayerVars, copyFilesVars, storageNameVars, toStorageVars, solutionVars, converterVars, storeResourcesVars>>
notStoreResourcesVars == <<sortVars, resolverVars, replaceVars, templatizeVars, checkedVars, deployerVars, replayerVars, copyFilesVars, storageNameVars, toStorageVars, solutionVars, converterVars, storyMapVars>>

Range(s) == {s[i] : i \in 1..Len(s)}

IndexOf(s, x) == CHOOSE i \in 1..Len(s) : s[i] = x

(***************************************************************************)
(*                       TOPOLOGICAL SEQUENCER                             *)
(***************************************************************************)

\* Largest number of items of an input hash.
MaxItems == 4
\* Largest total number of dependency ids over all items of an input.
MaxEdges == 4
\* The sequencer is run twice on one input.
Runs == 1..2

ItemKeys == 1..MaxItems

\* Object.keys(items): the keys of the input, in input order.
Keys == 1..numItems

NoResult == [status |-> "none", list |-> <<>>]

EdgeCount == LET RECURSIVE Sum(_)
                 Sum(k) == IF k = 0 THEN 0 ELSE Cardinality(dependencies[k]) + Sum(k - 1)
             IN Sum(MaxItems)

\* The dependencies of t that are keys of the input; other ids are dangling
\* references and take no part in the ordering.
keyedDependencies(t) == {d \in dependencies[t] : d \in Keys}

computeInDegreePruningSelf(t) == Cardinality({d \in dependencies[t] : d \in Keys /\ d # t})

\* In-degree of t: the number of its dependency edges that end at a key.
computeInDegree(t) == Cardinality({d \in dependencies[t] : d \in Keys})

\* The keys that can be emitted now: not yet emitted, in-degree zero.
zeroInDegree == {t \in Keys : t \notin Range(buildList) /\ inDegree[t] = 0}

nextInLastPosition(eligible) == CHOOSE t \in eligible : \A u \in eligible : u <= t

nextDependingOnRun(eligible) ==
  IF run = 1 THEN CHOOSE t \in eligible : \A u \in eligible : t <= u
             ELSE CHOOSE t \in eligible : \A u \in eligible : u <= t

\* Tie-break: of the eligible keys, the one that comes first in input order.
nextInInputOrder(eligible) == CHOOSE t \in eligible : \A u \in eligible : t <= u

decrementAll(t, removed) == inDegree[t] - 1

\* Removing a key decrements the in-degree of the items that depend on it.
decrementNeighbor(t, removed) ==
  IF removed \in dependencies[t] THEN inDegree[t] - 1 ELSE inDegree[t]

\* Nothing can be removed although keys remain: the graph has a cycle.
cycleDetected == zeroInDegree = {} /\ Len(buildList) < numItems

returnEvenIfPartial == zeroInDegree = {}

returnBeforeLast == Len(buildList) >= numItems - 1

\* Nothing is left to remove and every key has been emitted.
sortComplete == zeroInDegree = {} /\ Len(buildList) = numItems

SortIdle ==
  /\ numItems = 0
  /\ dependencies = [k \in ItemKeys |-> {}]
  /\ sortPc = "idle"
  /\ inDegree = [k \in ItemKeys |-> 0]
  /\ buildList = <<>>
  /\ run = 0
  /\ results = [r \in Runs |-> NoResult]

\* The caller creates a hash of 1..MaxItems items without dependencies.
SortInit ==
  /\ numItems \in 1..MaxItems
  /\ dependencies = [k \in ItemKeys |-> {}]
  /\ sortPc = "build"
  /\ inDegree = [k \in ItemKeys |-> 0]
  /\ buildList = <<>>
  /\ run = 0
  /\ results = [r \in Runs |-> NoResult]

\* The caller adds an id to the dependencies of an item (abc.dependencies = [...]).
\* The id may be the item itself, another key, or no key at all.
AddDependency(t, d) ==
  /\ sortPc = "build"
  /\ t \in Keys
  /\ d \notin dependencies[t]
  /\ EdgeCount < MaxEdges
  /\ dependencies' = [dependencies EXCEPT ![t] = @ \cup {d}]
  /\ UNCHANGED <<numItems, sortPc, inDegree, buildList, run, results>>
  /\ UNCHANGED notSortVars

\* topologicallySortItems(items) is called: the in-degrees are computed.
SortStart ==
  /\ sortPc \in {"build", "finished"}
  /\ run + 1 \in Runs
  /\ run' = run + 1
  /\ sortPc' = "sorting"
  /\ inDegree' = [k \in ItemKeys |-> IF k \in Keys THEN computeInDegree(k) ELSE 0]
  /\ buildList' = <<>>
  /\ UNCHANGED <<numItems, dependencies, results>>
  /\ UNCHANGED notSortVars

\* One zero-in-degree key is removed and emitted.
SortRemove ==
  /\ sortPc = "sorting"
  /\ zeroInDegree # {}
  /\ LET removed == nextInInputOrder(zeroInDegree) IN
       /\ buildList' = Append(buildList, removed)
       /\ inDegree' = [k \in ItemKeys |->
                         IF k \in Keys /\ k \notin Range(buildList) /\ k # removed
                         THEN decrementNeighbor(k, removed) ELSE inDegree[k]]
  /\ UNCHANGED <<numItems, dependencies, sortPc, run, results>>
  /\ UNCHANGED notSortVars

\* throw Error("Cyclical dependency graph detected"): nothing is returned.
SortThrow ==
  /\ sortPc = "sorting"
  /\ cycleDetected
  /\ results' = [results EXCEPT ![run] = [status |-> "thrown", list |-> <<>>]]
  /\ sortPc' = "finished"
  /\ UNCHANGED <<numItems, dependencies, inDegree, buildList, run>>
  /\ UNCHANGED notSortVars

\* return buildList
SortReturn ==
  /\ sortPc = "sorting"
  /\ sortComplete
  /\ results' = [results EXCEPT ![run] = [status |-> "returned", list |-> buildList]]
  /\ sortPc' = "finished"
  /\ UNCHANGED <<numItems, dependencies, inDegree, buildList, run>>
  /\ UNCHANGED notSortVars

\* ---- the dependency graph of the input, independently of the algorithm ----

\* The keys that t depends on, directly or through other keys.
DependsOn(t) ==
  LET RECURSIVE Grow(_, _)
      Grow(S, k) == IF k = 0 THEN S
                    ELSE Grow(S \cup UNION {keyedDependencies(x) : x \in S}, k - 1)
  IN Grow(keyedDependencies(t), numItems)

Acyclic == \A t \in Keys : t \notin DependsOn(t)

HasMultiItemCycle ==
  \E a, b \in Keys : a # b /\ b \in DependsOn(a) /\ a \in DependsOn(b)

HasSelfCycle == \E t \in Keys : t \in dependencies[t]

Unrelated(a, b) == a \notin DependsOn(b) /\ b \notin DependsOn(a)

Finished(r) == results[r].status # "none"

Returned(r) == results[r].status = "returned"

Thrown(r) == results[r].status = "thrown"

Before(list, a, b) ==
  /\ a \in Range(list)
  /\ b \in Range(list)
  /\ IndexOf(list, a) < IndexOf(list, b)

(***************************************************************************)
(*                        DEPENDENCY RESOLVER                              *)
(***************************************************************************)

\* Number of item ids of the source system.
MaxIds == 3
\* Number of createItemTemplate calls made by the outside caller.
MaxRootCalls == 2
\* Largest length of the dependencies list that a converter returns.
MaxDeps == 2
\* Largest number of ids that are groups: getItem rejects for them.
MaxGroups == 2

Ids == 1..MaxIds

\* The dependencies lists a converter may return: unique ids in any order, the
\* item's own id included.
DependencyLists ==
  {deps \in UNION {[1..n -> Ids] : n \in 0..MaxDeps} :
     \A i, j \in 1..Len(deps) : i # j => deps[i] # deps[j]}

\* null
NullTemplate == [itemId |-> 0, type |-> "null", dependencies |-> <<>>]

\* common.createPlaceholderTemplate(id): a template with the id and nothing else.
createPlaceholderTemplate(id) == [itemId |-> id, type |-> "", dependencies |-> <<>>]

\* common.findTemplateIndexInList(list, id): the first index whose template
\* has the id; indices are counted from 1 here, and 0 stands for "not found" (-1).
findTemplateIndexInList(list, id) ==
  IF \E i \in 1..Len(list) : list[i].itemId = id
  THEN CHOOSE i \in 1..Len(list) :
         /\ list[i].itemId = id
         /\ \A j \in 1..(i - 1) : list[j].itemId # id
  ELSE 0

\* common.findTemplateInList(list, id): the template with the id, or null.
findTemplateInList(list, id) ==
  IF findTemplateIndexInList(list, id) = 0 THEN NullTemplate
  ELSE list[findTemplateIndexInList(list, id)]

replaceTemplateAtEnd(list, id, template) ==
  LET i == findTemplateIndexInList(list, id) IN
    IF i >= 1
    THEN [templates |-> Append(SelectSeq(list, LAMBDA t : t.itemId # id), template),
          returned |-> TRUE]
    ELSE [templates |-> list, returned |-> FALSE]

\* _replaceTemplate(list, id, template): the list after the call and the
\* value returned.
_replaceTemplate(list, id, template) ==
  LET i == findTemplateIndexInList(list, id) IN
    IF i >= 1 THEN [templates |-> [list EXCEPT ![i] = template], returned |-> TRUE]
    ELSE [templates |-> list, returned |-> FALSE]

neverListed(list, itemId) == FALSE

\* "Check if item and its dependents are already in list or are queued"
alreadyInList(list, itemId) == findTemplateInList(list, itemId) # NullTemplate

placeholderNotAdded(list, itemId) == list

\* "Add the id as a placeholder to show that it is being fetched"
addPlaceholder(list, itemId) == Append(list, createPlaceholderTemplate(itemId))

\* A createItemTemplate call: the id, the call whose dependency it is (0: the
\* outside caller), the collaborator call it waits for, the state of its promise,
\* whether it found the id in the list, and what the fetch told about the id
\* (itemInfo: "none" until a fetch has resolved).
NewCall(itemId, parent, pc, status, found) ==
  [itemId |-> itemId, parent |-> parent, pc |-> pc, status |-> status, found |-> found,
   itemInfo |-> "none"]

\* The synchronous part of createItemTemplate (the promise executor), as a
\* function of the state st = [templates, calls, fetchCount]: the check of the
\* list, the placeholder, and the getItem call.
createItemTemplate(st, itemId, parent) ==
  IF alreadyInList(st.templates, itemId)
  THEN [st EXCEPT !.calls = Append(@, NewCall(itemId, parent, "settled", "resolved", TRUE))]
  ELSE [templates |-> addPlaceholder(st.templates, itemId),
        calls |-> Append(st.calls, NewCall(itemId, parent, "getItem", "pending", FALSE)),
        fetchCount |-> [st.fetchCount EXCEPT ![itemId] = @ + 1]]

\* itemTemplate.dependencies.forEach: a recursive createItemTemplate call for
\* every dependency that is not in the list when its turn comes.
RECURSIVE traceDependencies(_, _, _)
traceDependencies(st, deps, parent) ==
  IF deps = <<>> THEN st
  ELSE traceDependencies(
         IF findTemplateInList(st.templates, Head(deps)) = NullTemplate
         THEN createItemTemplate(st, Head(deps), parent)
         ELSE st,
         Tail(deps), parent)

\* The number of getGroup calls made so far.
GroupFetches ==
  LET RECURSIVE Sum(_)
      Sum(k) == IF k = 0 THEN 0 ELSE groupFetchCount[k] + Sum(k - 1)
  IN Sum(MaxIds)

dependentDfdsAndItself(c) == {d \in 1..Len(calls) : calls[d].parent = c \/ d = c}

\* dependentDfds of call c: the calls it started.
dependentDfds(c) == {d \in 1..Len(calls) : calls[d].parent = c}

Settle(c, status) == [calls EXCEPT ![c].pc = "settled", ![c].status = status]

Waiting(c, pc) == c \in 1..Len(calls) /\ calls[c].pc = pc

ResolverInit ==
  /\ existingTemplates = <<>>
  /\ calls = <<>>
  /\ rootCalls = 0
  /\ fetchCount = [id \in Ids |-> 0]
  /\ convertCount = [id \in Ids |-> 0]
  /\ groupFetchCount = [id \in Ids |-> 0]

\* The outside caller calls createItemTemplate(itemId) on the shared list.
CallCreateItemTemplate(itemId) ==
  /\ rootCalls < MaxRootCalls
  /\ rootCalls' = rootCalls + 1
  /\ LET st == createItemTemplate(
                 [templates |-> existingTemplates, calls |-> calls, fetchCount |-> fetchCount],
                 itemId, 0)
     IN /\ existingTemplates' = st.templates
        /\ calls' = st.calls
        /\ fetchCount' = st.fetchCount
  /\ UNCHANGED <<convertCount, groupFetchCount>>
  /\ UNCHANGED notResolverVars

\* getItem resolves with an item tagged "deploy.thumbnail": getBlob is called.
GetItemResolvesThumbnail(c) ==
  /\ Waiting(c, "getItem")
  /\ calls' = [calls EXCEPT ![c].pc = "getBlob", ![c].itemInfo = "thumbnail"]
  /\ UNCHANGED <<existingTemplates, rootCalls, fetchCount, convertCount, groupFetchCount>>
  /\ UNCHANGED notResolverVars

\* getBlob resolves: addThumbnailFromBlob is called.
GetBlobResolves(c) ==
  /\ Waiting(c, "getBlob")
  /\ calls' = [calls EXCEPT ![c].pc = "addThumbnail"]
  /\ UNCHANGED <<existingTemplates, rootCalls, fetchCount, convertCount, groupFetchCount>>
  /\ UNCHANGED notResolverVars

\* getBlob rejects: resolve(true).
GetBlobRejects(c) ==
  /\ Waiting(c, "getBlob")
  /\ calls' = Settle(c, "resolved")
  /\ UNCHANGED <<existingTemplates, rootCalls, fetchCount, convertCount, groupFetchCount>>
  /\ UNCHANGED notResolverVars

\* addThumbnailFromBlob resolves or rejects: resolve(true) either way.
AddThumbnailSettles(c) ==
  /\ Waiting(c, "addThumbnail")
  /\ calls' = Settle(c, "resolved")
  /\ UNCHANGED <<existingTemplates, rootCalls, fetchCount, convertCount, groupFetchCount>>
  /\ UNCHANGED notResolverVars

\* getItem resolves with an item whose type has no handler: resolve(true).
GetItemResolvesUnsupported(c) ==
  /\ Waiting(c, "getItem")
  /\ calls' = [Settle(c, "resolved") EXCEPT ![c].itemInfo = "unsupported"]
  /\ UNCHANGED <<existingTemplates, rootCalls, fetchCount, convertCount, groupFetchCount>>
  /\ UNCHANGED notResolverVars

\* getItem resolves with an item whose type has a handler: its
\* convertItemToTemplate is called.
GetItemResolvesSupported(c) ==
  /\ Waiting(c, "getItem")
  /\ calls' = [calls EXCEPT ![c].pc = "convert", ![c].itemInfo = "supported"]
  /\ convertCount' = [convertCount EXCEPT ![calls[c].itemId] = @ + 1]
  /\ UNCHANGED <<existingTemplates, rootCalls, fetchCount, groupFetchCount>>
  /\ UNCHANGED notResolverVars

\* getItem rejects: getGroup is called for the same id.
GetItemRejects(c) ==
  /\ Waiting(c, "getItem")
  /\ GroupFetches < MaxGroups
  /\ calls' = [calls EXCEPT ![c].pc = "getGroup"]
  /\ groupFetchCount' = [groupFetchCount EXCEPT ![calls[c].itemId] = @ + 1]
  /\ UNCHANGED <<existingTemplates, rootCalls, fetchCount, convertCount>>
  /\ UNCHANGED notResolverVars

\* getGroup resolves: the group converter is called.
GetGroupResolves(c) ==
  /\ Waiting(c, "getGroup")
  /\ calls' = [calls EXCEPT ![c].pc = "convertGroup", ![c].itemInfo = "group"]
  /\ convertCount' = [convertCount EXCEPT ![calls[c].itemId] = @ + 1]
  /\ UNCHANGED <<existingTemplates, rootCalls, fetchCount, groupFetchCount>>
  /\ UNCHANGED notResolverVars

GetGroupRejectsRefetches(c) ==
  /\ Waiting(c, "getGroup")
  /\ calls' = [calls EXCEPT ![c].pc = "getItem"]
  /\ fetchCount' = [fetchCount EXCEPT ![calls[c].itemId] = @ + 1]
  /\ UNCHANGED <<existingTemplates, rootCalls, convertCount, groupFetchCount>>
  /\ UNCHANGED notResolverVars

\* getGroup rejects: reject.
GetGroupRejects(c) ==
  /\ Waiting(c, "getGroup")
  /\ calls' = Settle(c, "rejected")
  /\ UNCHANGED <<existingTemplates, rootCalls, fetchCount, convertCount, groupFetchCount>>
  /\ UNCHANGED notResolverVars

\* The converter resolves with the template of the item (its itemId is the id
\* of the item that was fetched): the placeholder is replaced; without
\* dependencies resolve(true), otherwise the dependencies that are not in the
\* list are resolved recursively and awaited with Promise.all.
ConvertResolves(c, deps) ==
  /\ Waiting(c, "convert") \/ Waiting(c, "convertGroup")
  /\ LET itemTemplate == [itemId |-> calls[c].itemId,
                          type |-> IF calls[c].pc = "convert" THEN "Web Map" ELSE "Group",
                          dependencies |-> deps]
         replaced == _replaceTemplate(existingTemplates, itemTemplate.itemId, itemTemplate)
     IN IF Len(itemTemplate.dependencies) = 0
        THEN /\ existingTemplates' = replaced.templates
             /\ calls' = Settle(c, "resolved")
             /\ UNCHANGED fetchCount
        ELSE LET st == traceDependencies(
                         [templates |-> replaced.templates,
                          calls |-> [calls EXCEPT ![c].pc = "awaitDependencies"],
                          fetchCount |-> fetchCount],
                         itemTemplate.dependencies, c)
             IN /\ existingTemplates' = st.templates
                /\ calls' = st.calls
                /\ fetchCount' = st.fetchCount
  /\ UNCHANGED <<rootCalls, convertCount, groupFetchCount>>
  /\ UNCHANGED notResolverVars

\* The converter rejects: reject.
ConvertRejects(c) ==
  /\ Waiting(c, "convert") \/ Waiting(c, "convertGroup")
  /\ calls' = Settle(c, "rejected")
  /\ UNCHANGED <<existingTemplates, rootCalls, fetchCount, convertCount, groupFetchCount>>
  /\ UNCHANGED notResolverVars

DependenciesResolveAfterTheFirst(c) ==
  /\ Waiting(c, "awaitDependencies")
  /\ \/ dependentDfds(c) = {}
     \/ \E d \in dependentDfds(c) : calls[d].status = "resolved"
  /\ calls' = Settle(c, "resolved")
  /\ UNCHANGED <<existingTemplates, rootCalls, fetchCount, convertCount, groupFetchCount>>
  /\ UNCHANGED notResolverVars

\* Promise.all(dependentDfds) resolves: resolve(true).
DependenciesResolve(c) ==
  /\ Waiting(c, "awaitDependencies")
  /\ \A d \in dependentDfds(c) : calls[d].status = "resolved"
  /\ calls' = Settle(c, "resolved")
  /\ UNCHANGED <<existingTemplates, rootCalls, fetchCount, convertCount, groupFetchCount>>
  /\ UNCHANGED notResolverVars

\* Promise.all(dependentDfds) rejects, as soon as one of them has: reject.
DependencyRejects(c) ==
  /\ Waiting(c, "awaitDependencies")
  /\ \E d \in dependentDfds(c) : calls[d].status = "rejected"
  /\ calls' = Settle(c, "rejected")
  /\ UNCHANGED <<existingTemplates, rootCalls, fetchCount, convertCount, groupFetchCount>>
  /\ UNCHANGED notResolverVars

\* The largest number of createItemTemplate calls of a behaviour.
CallIndices == 1..(MaxIds + MaxRootCalls)

(***************************************************************************)
(*                  _replaceTemplate CALLED ON ITS OWN                     *)
(***************************************************************************)

\* Largest length of the list handed to _replaceTemplate.
MaxListLen == 3

NoArgs == [templates |-> <<>>, id |-> 0, template |-> NullTemplate]

\* The entries of a list: placeholders and populated templates.
ListEntries ==
  {createPlaceholderTemplate(id) : id \in Ids}
    \cup {[itemId |-> id, type |-> "Web Map", dependencies |-> <<>>] : id \in Ids}

\* The replacement templates: populated, with at most one dependency.
Replacements ==
  {[itemId |-> id, type |-> "Web Map", dependencies |-> deps] :
     id \in Ids, deps \in {d \in DependencyLists : Len(d) <= 1}}

ReplaceIdle ==
  /\ templates = <<>>
  /\ replacePc = "idle"
  /\ replaceArgs = NoArgs
  /\ replaceReturn = FALSE

ReplaceInit ==
  /\ templates = <<>>
  /\ replacePc = "build"
  /\ replaceArgs = NoArgs
  /\ replaceReturn = FALSE

\* The caller builds a list with one entry per id at most, as the resolver does.
PushTemplate(entry) ==
  /\ replacePc = "build"
  /\ Len(templates) < MaxListLen
  /\ \A i \in 1..Len(templates) : templates[i].itemId # entry.itemId
  /\ templates' = Append(templates, entry)
  /\ UNCHANGED <<replacePc, replaceArgs, replaceReturn>>
  /\ UNCHANGED notReplaceVars

\* _replaceTemplate(templates, id, template) is called.
CallReplaceTemplate(id, template) ==
  /\ replacePc = "build"
  /\ LET r == _replaceTemplate(templates, id, template) IN
       /\ templates' = r.templates
       /\ replaceReturn' = r.returned
  /\ replaceArgs' = [templates |-> templates, id |-> id, template |-> template]
  /\ replacePc' = "called"
  /\ UNCHANGED notReplaceVars

(***************************************************************************)
(*                        REFERENCE TEMPLATIZER                            *)
(***************************************************************************)
\* common.templatizeTerm and common.replaceInTemplate are not among the
\* sources; they are modelled from the design document, section 4.2: the
\* placeholder {{<key><.suffix>}}, and a replacement that is textual and
\* total.  Their use is the one of the group module: the id of a group is
\* templatized under its own id, and replaced when the group is created.
\* A text is a sequence of characters; the suffix ".itemId" is one character.

\* Largest length of a text before templatizing.
MaxPayloadLen == 4
\* Length of an item id.
IdLen == 2

IdChars == {"a", "b"}

TextChars == IdChars \cup {"{", "}", ".itemId"}

\* The item ids: texts of one length.
ItemIdTexts == [1..IdLen -> IdChars]

Payloads == UNION {[1..n -> TextChars] : n \in 0..MaxPayloadLen}

\* No entry in the template dictionary.
NoEntry == [itemId |-> <<>>]

\* value stands in text at position p.
OccursAt(text, value, p) ==
  /\ p >= 1
  /\ p + Len(value) - 1 <= Len(text)
  /\ \A k \in 1..Len(value) : text[p + k - 1] = value[k]

Occurrences(text, value) == {p \in 1..Len(text) : OccursAt(text, value, p)}

RECURSIVE replaceFirstOnly(_, _, _)
replaceFirstOnly(text, oldValue, newValue) ==
  IF text = <<>> THEN <<>>
  ELSE IF OccursAt(text, oldValue, 1)
       THEN newValue \o SubSeq(text, Len(oldValue) + 1, Len(text))
       ELSE <<Head(text)>> \o replaceFirstOnly(Tail(text), oldValue, newValue)

\* String.replace with a global pattern: every occurrence of oldValue, from
\* the left, an occurrence that overlaps a replaced one not counted.
RECURSIVE replaceEvery(_, _, _)
replaceEvery(text, oldValue, newValue) ==
  IF text = <<>> THEN <<>>
  ELSE IF OccursAt(text, oldValue, 1)
       THEN newValue \o replaceEvery(SubSeq(text, Len(oldValue) + 1, Len(text)),
                                     oldValue, newValue)
       ELSE <<Head(text)>> \o replaceEvery(Tail(text), oldValue, newValue)

\* The placeholder {{<key><suffix>}}.
placeholder(key, suffix) == <<"{", "{">> \o key \o suffix \o <<"}", "}">>

\* common.templatizeTerm(context, term, suffix): every occurrence of term in
\* context becomes the placeholder of term.
templatizeTerm(context, term, suffix) ==
  replaceEvery(context, term, placeholder(term, suffix))

\* The key between "{{" and ".itemId}}" at the head of text.
keyAtHead(text) == SubSeq(text, 3, 2 + IdLen)

\* The head of text is the placeholder of a key that has an entry in dict.
resolvesAtHead(text, dict) ==
  /\ Len(text) >= IdLen + 5
  /\ keyAtHead(text) \in ItemIdTexts
  /\ OccursAt(text, placeholder(keyAtHead(text), <<".itemId">>), 1)
  /\ dict[keyAtHead(text)] # NoEntry

\* common.replaceInTemplate(template, replacements): every placeholder whose
\* key has an entry is replaced by the value of the entry; the rest of the
\* text stays as it is.
RECURSIVE replaceInTemplate(_, _)
replaceInTemplate(text, dict) ==
  IF text = <<>> THEN <<>>
  ELSE IF resolvesAtHead(text, dict)
       THEN dict[keyAtHead(text)].itemId
              \o replaceInTemplate(SubSeq(text, IdLen + 6, Len(text)), dict)
       ELSE <<Head(text)>> \o replaceInTemplate(Tail(text), dict)

TemplatizeIdle ==
  /\ groupPc = "idle"
  /\ sourceId = <<>>
  /\ payload = <<>>
  /\ newItemTemplate = <<>>
  /\ templateDictionary = <<>>

\* A source group and a text that may refer to it; nothing is deployed yet.
TemplatizeInit ==
  /\ groupPc = "source"
  /\ sourceId \in ItemIdTexts
  /\ payload \in Payloads
  /\ newItemTemplate = payload
  /\ templateDictionary = [id \in ItemIdTexts |-> NoEntry]

\* group convertItemToTemplate: "Templatize item info property values".
ConvertItemToTemplate ==
  /\ groupPc = "source"
  /\ groupPc' = "templatized"
  /\ newItemTemplate' = templatizeTerm(newItemTemplate, sourceId, <<".itemId">>)
  /\ UNCHANGED <<sourceId, payload, templateDictionary>>
  /\ UNCHANGED notTemplatizeVars

\* group createItemFromTemplate, up to the createGroup call: "Replace the
\* templatized symbols in a copy of the template".
CreateItemFromTemplate ==
  /\ groupPc = "templatized"
  /\ groupPc' = "creating"
  /\ newItemTemplate' = replaceInTemplate(newItemTemplate, templateDictionary)
  /\ UNCHANGED <<sourceId, payload, templateDictionary>>
  /\ UNCHANGED notTemplatizeVars

CreateGroupSucceedsWithoutUpdate(newId) ==
  /\ groupPc = "creating"
  /\ newId # sourceId
  /\ groupPc' = "created"
  /\ templateDictionary' = [templateDictionary EXCEPT ![sourceId] = [itemId |-> newId]]
  /\ UNCHANGED <<sourceId, payload, newItemTemplate>>
  /\ UNCHANGED notTemplatizeVars

\* createGroup resolves with success and the id of the new group, an id of
\* its own: the dictionary gets the entry of the source id and the template
\* is replaced again; copyFilesFromStorageItem is called.
CreateGroupSucceeds(newId) ==
  /\ groupPc = "creating"
  /\ newId # sourceId
  /\ groupPc' = "created"
  /\ templateDictionary' = [templateDictionary EXCEPT ![sourceId] = [itemId |-> newId]]
  /\ newItemTemplate' = replaceInTemplate(newItemTemplate, templateDictionary')
  /\ UNCHANGED <<sourceId, payload>>
  /\ UNCHANGED notTemplatizeVars

\* createGroup rejects, or resolves without success: reject.
CreateGroupFails ==
  /\ groupPc = "creating"
  /\ groupPc' = "failed"
  /\ UNCHANGED <<sourceId, payload, newItemTemplate, templateDictionary>>
  /\ UNCHANGED notTemplatizeVars

\* copyFilesFromStorageItem resolves: "Update the template dictionary with
\* the new id", resolve.
CopyFilesResolve ==
  /\ groupPc = "created"
  /\ groupPc' = "done"
  /\ templateDictionary' =
       [templateDictionary EXCEPT ![sourceId].itemId = templateDictionary[sourceId].itemId]
  /\ UNCHANGED <<sourceId, payload, newItemTemplate>>
  /\ UNCHANGED notTemplatizeVars

\* copyFilesFromStorageItem rejects: reject.
CopyFilesReject ==
  /\ groupPc = "created"
  /\ groupPc' = "failed"
  /\ UNCHANGED <<sourceId, payload, newItemTemplate, templateDictionary>>
  /\ UNCHANGED notTemplatizeVars

(***************************************************************************)
(*                  _checkedReplaceAll CALLED ON ITS OWN                   *)
(***************************************************************************)
\* _checkedReplaceAll is not among the sources, its tests are; it is modelled
\* from them and from the design document, section 4.2 ("Replacement must be
\* textual and total").

\* Largest length of the template handed to _checkedReplaceAll.
MaxTemplateLen == 4
\* Largest length of oldValue and of newValue.
MaxValueLen == 2

\* const template: string = null
NullText == <<"null">>

TemplateTexts == UNION {[1..n -> IdChars] : n \in 0..MaxTemplateLen} \cup {NullText}

OldValues == UNION {[1..n -> IdChars] : n \in 1..MaxValueLen}

NewValues == UNION {[1..n -> IdChars \cup {"M"}] : n \in 0..MaxValueLen}

checkedReplaceFirst(template, oldValue, newValue) ==
  IF template # NullText /\ Occurrences(template, oldValue) # {}
  THEN replaceFirstOnly(template, oldValue, newValue)
  ELSE template

\* _checkedReplaceAll(template, oldValue, newValue)
_checkedReplaceAll(template, oldValue, newValue) ==
  IF template # NullText /\ Occurrences(template, oldValue) # {}
  THEN replaceEvery(template, oldValue, newValue)
  ELSE template

CheckedIdle ==
  /\ checkedPc = "idle"
  /\ checkedArgs = <<>>
  /\ checkedReturn = <<>>

CheckedInit ==
  /\ checkedPc = "ready"
  /\ checkedArgs \in [template : TemplateTexts, oldValue : OldValues, newValue : NewValues]
  /\ checkedReturn = <<>>

\* const actualResult = _checkedReplaceAll(template, oldValue, newValue)
CallCheckedReplaceAll ==
  /\ checkedPc = "ready"
  /\ checkedPc' = "called"
  /\ checkedReturn' =
       _checkedReplaceAll(checkedArgs.template, checkedArgs.oldValue, checkedArgs.newValue)
  /\ UNCHANGED checkedArgs
  /\ UNCHANGED notCheckedVars

(***************************************************************************)
(*        _getNewItemId AND _updateGroupReferences CALLED ON THEIR OWN     *)
(***************************************************************************)
\* The two functions are not among the sources, their tests are; they are
\* modelled from the tests.  A template dictionary is a function from the
\* source ids that have an entry to the entries.

\* Largest number of templates handed to _updateGroupReferences.
MaxGroupTemplates == 2
\* Largest length of the groups list of a template.
MaxGroupRefs == 2

\* The ids found in groups lists, and the ids a dictionary entry may hold.
GroupIds == {"abc", "ghi"}
NewGroupIds == {"ghi", "xyz"}

\* const templateDictionary = { abc: { itemId: "xyz" } }
GroupDictionaries ==
  UNION {[keys -> [itemId : NewGroupIds]] : keys \in SUBSET GroupIds}

\* { type: "Group", itemId: "xyz", groups: ["abc", "ghi"] }
GroupTemplates ==
  [type : {"Group"}, itemId : {"xyz", "def"},
   groups : UNION {[1..n -> GroupIds] : n \in 0..MaxGroupRefs}]

GroupTemplateLists == UNION {[1..n -> GroupTemplates] : n \in 0..MaxGroupTemplates}

getNewItemIdOrNothing(id, dict) ==
  [returned |-> IF id \in DOMAIN dict THEN dict[id].itemId ELSE "",
   templateDictionary |-> dict]

\* _getNewItemId(sourceId, templateDictionary): the value returned and the
\* dictionary after the call.
_getNewItemId(id, dict) ==
  [returned |-> IF id \in DOMAIN dict THEN dict[id].itemId ELSE id,
   templateDictionary |-> dict]

updateFirstGroupReference(list, dict) ==
  [i \in 1..Len(list) |->
     [list[i] EXCEPT !.groups =
        [j \in 1..Len(list[i].groups) |->
           IF j = 1 THEN _getNewItemId(list[i].groups[j], dict).returned
           ELSE list[i].groups[j]]]]

\* _updateGroupReferences(itemTemplates, templateDictionary)
_updateGroupReferences(list, dict) ==
  [i \in 1..Len(list) |->
     [list[i] EXCEPT !.groups =
        [j \in 1..Len(list[i].groups) |-> _getNewItemId(list[i].groups[j], dict).returned]]]

DeployerIdle ==
  /\ deployerPc = "idle"
  /\ deployerArgs = <<>>
  /\ deployerReturn = <<>>

\* The arguments of one call of one of the two functions.
DeployerInit ==
  /\ deployerPc = "ready"
  /\ deployerArgs \in
       [fn : {"_getNewItemId"}, sourceId : GroupIds \cup NewGroupIds,
        itemTemplates : {<<>>}, templateDictionary : GroupDictionaries]
       \cup
       [fn : {"_updateGroupReferences"}, sourceId : {""},
        itemTemplates : GroupTemplateLists, templateDictionary : GroupDictionaries]
  /\ deployerReturn = <<>>

\* const actualResult = _getNewItemId(sourceId, templateDictionary)
CallGetNewItemId ==
  /\ deployerPc = "ready"
  /\ deployerArgs.fn = "_getNewItemId"
  /\ deployerPc' = "gotNewItemId"
  /\ deployerReturn' = _getNewItemId(deployerArgs.sourceId, deployerArgs.templateDictionary)
  /\ UNCHANGED deployerArgs
  /\ UNCHANGED notDeployerVars

\* const actual = _updateGroupReferences(itemTemplates, templateDictionary)
CallUpdateGroupReferences ==
  /\ deployerPc = "ready"
  /\ deployerArgs.fn = "_updateGroupReferences"
  /\ deployerPc' = "updatedGroupReferences"
  /\ deployerReturn' =
       _updateGroupReferences(deployerArgs.itemTemplates, deployerArgs.templateDictionary)
  /\ UNCHANGED deployerArgs
  /\ UNCHANGED notDeployerVars

(***************************************************************************)
(*                         DEPLOYMENT REPLAYER                             *)
(***************************************************************************)
\* The templates of an order are created by createItemFromTemplate of the
\* group module, which is among the sources.  The loop that walks the order
\* is not; it is modelled from the design document, section 4.4: strictly
\* sequential, aborted by the first failure, which is reported with the id of
\* the template.  common.cloneObject is not among the sources either; it is
\* modelled as a deep copy: an object of its own with the same content.

\* Largest number of templates of an order.
MaxDeployTemplates == 3

\* A template of a group as convertItemToTemplate makes it.
GroupTemplateOf(id) ==
  [itemId |-> id,
   type |-> "Group",
   item |-> [id |-> placeholder(id, <<".itemId">>), access |-> "public"],
   data |-> "null",
   dependencies |-> <<>>]

\* The deploy orders: templates of different ids.
DeployOrders ==
  {[k \in 1..Len(ids) |-> GroupTemplateOf(ids[k])] :
     ids \in {s \in UNION {[1..n -> ItemIdTexts] : n \in 1..MaxDeployTemplates} :
                \A i, j \in 1..Len(s) : i # j => s[i] # s[j]}}

NoFailure == <<>>

\* The step of a template that has not started has no copy.
NoCopy == [object |-> GroupTemplateOf(<<>>), shared |-> FALSE]

sameObject(template) == [object |-> template, shared |-> TRUE]

\* common.cloneObject(template): a copy that shares nothing with the template.
cloneObject(template) == [object |-> template, shared |-> FALSE]

\* The templates after a step has written content into its copy of template k.
templatesAfterWrite(k, copy, content) ==
  IF copy.shared THEN [deployTemplates EXCEPT ![k] = content] ELSE deployTemplates

\* The keys of a template dictionary: the ids that have an entry.
dictionaryKeys(dict) == {id \in DOMAIN dict : dict[id] # NoEntry}

startsAtOnce(k) == TRUE

\* The loop over the order: the step of a template starts when the steps of
\* all templates before it are done.
startsInTurn(k) == \A j \in 1..(k - 1) : steps[j] = "done"

ReplayerIdle ==
  /\ deployTemplates = <<>>
  /\ templateDict = <<>>
  /\ steps = <<>>
  /\ newItemTemplates = <<>>
  /\ dictionaryWrites = <<>>
  /\ createdGroups = {}
  /\ deployOutcome = <<>>

ReplayerInit ==
  /\ deployTemplates \in DeployOrders
  /\ templateDict = [id \in ItemIdTexts |-> NoEntry]
  /\ steps = [k \in 1..Len(deployTemplates) |-> "pending"]
  /\ newItemTemplates = [k \in 1..Len(deployTemplates) |-> NoCopy]
  /\ dictionaryWrites = [id \in ItemIdTexts |-> 0]
  /\ createdGroups = {}
  /\ deployOutcome = [status |-> "running", failed |-> NoFailure]

\* The loop calls createItemFromTemplate for template k: "Replace the
\* templatized symbols in a copy of the template", access "private", and the
\* createGroup call.
StartStep(k) ==
  /\ deployOutcome.status = "running"
  /\ k \in 1..Len(deployTemplates)
  /\ steps[k] = "pending"
  /\ startsInTurn(k)
  /\ LET copy == cloneObject(deployTemplates[k])
         content == [copy.object EXCEPT !.item.id = replaceInTemplate(@, templateDict),
                                        !.item.access = "private"]
     IN /\ newItemTemplates' = [newItemTemplates EXCEPT ![k] = [copy EXCEPT !.object = content]]
        /\ deployTemplates' = templatesAfterWrite(k, copy, content)
  /\ steps' = [steps EXCEPT ![k] = "creating"]
  /\ UNCHANGED <<templateDict, dictionaryWrites, createdGroups, deployOutcome>>
  /\ UNCHANGED notReplayerVars

CreateGroupFailsAndRollsBack(k) ==
  /\ k \in 1..Len(deployTemplates)
  /\ steps[k] = "creating"
  /\ steps' = [steps EXCEPT ![k] = "createFailed"]
  /\ createdGroups' = {}
  /\ UNCHANGED <<deployTemplates, templateDict, newItemTemplates, dictionaryWrites,
                 deployOutcome>>
  /\ UNCHANGED notReplayerVars

CreateGroupFailsWithEntry(k) ==
  /\ k \in 1..Len(deployTemplates)
  /\ steps[k] = "creating"
  /\ steps' = [steps EXCEPT ![k] = "createFailed"]
  /\ templateDict' = [templateDict EXCEPT ![deployTemplates[k].itemId] = [itemId |-> deployTemplates[k].itemId]]
  /\ UNCHANGED <<deployTemplates, newItemTemplates, dictionaryWrites, createdGroups,
                 deployOutcome>>
  /\ UNCHANGED notReplayerVars

\* createGroup rejects, or resolves with success = false: reject.
CreateGroupFailsInStep(k) ==
  /\ k \in 1..Len(deployTemplates)
  /\ steps[k] = "creating"
  /\ steps' = [steps EXCEPT ![k] = "createFailed"]
  /\ UNCHANGED <<deployTemplates, templateDict, newItemTemplates, dictionaryWrites,
                 createdGroups, deployOutcome>>
  /\ UNCHANGED notReplayerVars

\* createGroup resolves with success and the id of the new group: the id is
\* written into the copy and into the dictionary under template.itemId, the
\* copy is replaced again, copyFilesFromStorageItem is called.
CreateGroupSucceedsInStep(k, newId) ==
  /\ k \in 1..Len(deployTemplates)
  /\ steps[k] = "creating"
  /\ newId # deployTemplates[k].itemId
  /\ newId \notin createdGroups
  /\ LET key == deployTemplates[k].itemId
         dict == [templateDict EXCEPT ![key] = [itemId |-> newId]]
         copy == newItemTemplates[k]
         content == [copy.object EXCEPT !.itemId = newId,
                                        !.item.id = replaceInTemplate(@, dict)]
     IN /\ templateDict' = dict
        /\ dictionaryWrites' = [dictionaryWrites EXCEPT ![key] = @ + 1]
        /\ newItemTemplates' = [newItemTemplates EXCEPT ![k].object = content]
        /\ deployTemplates' = templatesAfterWrite(k, copy, content)
  /\ createdGroups' = createdGroups \cup {newId}
  /\ steps' = [steps EXCEPT ![k] = "copying"]
  /\ UNCHANGED deployOutcome
  /\ UNCHANGED notReplayerVars

CopyFilesRejectsAndRemovesEntry(k) ==
  /\ k \in 1..Len(deployTemplates)
  /\ steps[k] = "copying"
  /\ steps' = [steps EXCEPT ![k] = "copyFailed"]
  /\ templateDict' = [templateDict EXCEPT ![deployTemplates[k].itemId] = NoEntry]
  /\ UNCHANGED <<deployTemplates, newItemTemplates, dictionaryWrites, createdGroups,
                 deployOutcome>>
  /\ UNCHANGED notReplayerVars

\* copyFilesFromStorageItem rejects: reject.
CopyFilesRejectsInStep(k) ==
  /\ k \in 1..Len(deployTemplates)
  /\ steps[k] = "copying"
  /\ steps' = [steps EXCEPT ![k] = "copyFailed"]
  /\ UNCHANGED <<deployTemplates, templateDict, newItemTemplates, dictionaryWrites,
                 createdGroups, deployOutcome>>
  /\ UNCHANGED notReplayerVars

\* copyFilesFromStorageItem resolves: "Update the template dictionary with
\* the new id", resolve.
CopyFilesResolvesInStep(k) ==
  /\ k \in 1..Len(deployTemplates)
  /\ steps[k] = "copying"
  /\ LET key == deployTemplates[k].itemId IN
       /\ templateDict' =
            [templateDict EXCEPT ![key].itemId = newItemTemplates[k].object.itemId]
       /\ dictionaryWrites' = [dictionaryWrites EXCEPT ![key] = @ + 1]
  /\ steps' = [steps EXCEPT ![k] = "done"]
  /\ UNCHANGED <<deployTemplates, newItemTemplates, createdGroups, deployOutcome>>
  /\ UNCHANGED notReplayerVars

\* The loop learns that the step of template k has rejected: the rest of the
\* order is given up and the failure is reported with the id of the template.
DeployAborts(k) ==
  /\ deployOutcome.status = "running"
  /\ k \in 1..Len(deployTemplates)
  /\ steps[k] \in {"createFailed", "copyFailed"}
  /\ deployOutcome' = [status |-> "rejected", failed |-> deployTemplates[k].itemId]
  /\ UNCHANGED <<deployTemplates, templateDict, steps, newItemTemplates, dictionaryWrites,
                 createdGroups>>
  /\ UNCHANGED notReplayerVars

\* The loop has come to the end of the order: the deployment resolves.
DeployCompletes ==
  /\ deployOutcome.status = "running"
  /\ \A k \in 1..Len(deployTemplates) : steps[k] = "done"
  /\ deployOutcome' = [status |-> "resolved", failed |-> NoFailure]
  /\ UNCHANGED <<deployTemplates, templateDict, steps, newItemTemplates, dictionaryWrites,
                 createdGroups>>
  /\ UNCHANGED notReplayerVars

(***************************************************************************)
(*                      copyFilesFromStorageItem                           *)
(***************************************************************************)
\* Largest number of file paths of a call.
MaxFiles == 3

\* Latest time to which the clock is followed, in milliseconds.
MaxClock == 2000

\* "Introduce a lag because AGO update appears to choke with rapid subsequent
\* calls".
msLag == 1000

EFileType == {"Data", "Info", "Metadata", "Resource", "Thumbnail"}

FilePathLists == UNION {[1..n -> EFileType] : n \in 0..MaxFiles}

\* The copy function that the switch over filePath.type calls.
copyFunction(type) ==
  CASE type = "Data" -> "copyData"
    [] type = "Info" -> "copyFormInfoFile"
    [] type = "Metadata" -> "copyMetadata"
    [] type = "Resource" -> "copyResource"
    [] type = "Thumbnail" -> "addThumbnailFromUrl"

\* The steps by which the clock is followed: half a lag and a whole one.
ClockSteps == {msLag \div 2, msLag}

\* The time of a copy call that has not been issued.
NotIssued == -1

\* setTimeout(..., msLag) called at time now: the timer of file path k is due
\* a lag after the call, whatever k is.
timeoutOf(k, now) == now + msLag

CopyFilesIdle ==
  /\ filePaths = <<>>
  /\ clock = 0
  /\ copies = <<>>
  /\ copyFilesResult = "idle"

CopyFilesInit ==
  /\ filePaths \in FilePathLists
  /\ clock = 0
  /\ copies = <<>>
  /\ copyFilesResult = "notCalled"

\* copyFilesFromStorageItem is called: filePaths.map sets one timer per file
\* path, all within the call, and Promise.all waits for the copies.
CopyFilesFromStorageItem ==
  /\ copyFilesResult = "notCalled"
  /\ copies' = [k \in 1..Len(filePaths) |->
                  [state |-> "scheduled",
                   call |-> copyFunction(filePaths[k]),
                   due |-> timeoutOf(k, clock),
                   issuedAt |-> NotIssued]]
  /\ copyFilesResult' = "pending"
  /\ UNCHANGED <<filePaths, clock>>
  /\ UNCHANGED notCopyFilesVars

\* Time passes.
AdvanceTime(ms) ==
  /\ copyFilesResult # "idle"
  /\ clock + ms <= MaxClock
  /\ clock' = clock + ms
  /\ UNCHANGED <<filePaths, copies, copyFilesResult>>
  /\ UNCHANGED notCopyFilesVars

\* The timer of file path k fires, when it is due or later and after the
\* timers set before it that are due no later: the copy call is issued.
TimerFires(k) ==
  /\ copyFilesResult \in {"pending", "resolved", "rejected"}
  /\ k \in 1..Len(copies)
  /\ copies[k].state = "scheduled"
  /\ clock >= copies[k].due
  /\ \A j \in 1..(k - 1) : copies[j].state = "scheduled" => copies[j].due > copies[k].due
  /\ copies' = [copies EXCEPT ![k].state = "issued", ![k].issuedAt = clock]
  /\ UNCHANGED <<filePaths, clock, copyFilesResult>>
  /\ UNCHANGED notCopyFilesVars

\* The copy call of file path k resolves.
CopyResolves(k) ==
  /\ k \in 1..Len(copies)
  /\ copies[k].state = "issued"
  /\ copies' = [copies EXCEPT ![k].state = "resolved"]
  /\ UNCHANGED <<filePaths, clock, copyFilesResult>>
  /\ UNCHANGED notCopyFilesVars

\* The copy call of file path k rejects.
CopyRejects(k) ==
  /\ k \in 1..Len(copies)
  /\ copies[k].state = "issued"
  /\ copies' = [copies EXCEPT ![k].state = "rejected"]
  /\ UNCHANGED <<filePaths, clock, copyFilesResult>>
  /\ UNCHANGED notCopyFilesVars

\* Promise.all(awaitAllItems) resolves: resolve(true).
AllCopiesResolved ==
  /\ copyFilesResult = "pending"
  /\ \A k \in 1..Len(copies) : copies[k].state = "resolved"
  /\ copyFilesResult' = "resolved"
  /\ UNCHANGED <<filePaths, clock, copies>>
  /\ UNCHANGED notCopyFilesVars

SomeCopyRejectedIgnored ==
  /\ copyFilesResult = "pending"
  /\ \E k \in 1..Len(copies) : copies[k].state = "rejected"
  /\ copyFilesResult' = "resolved"
  /\ UNCHANGED <<filePaths, clock, copies>>
  /\ UNCHANGED notCopyFilesVars

\* Promise.all(awaitAllItems) rejects with the first rejection: reject.
SomeCopyRejected ==
  /\ copyFilesResult = "pending"
  /\ \E k \in 1..Len(copies) : copies[k].state = "rejected"
  /\ copyFilesResult' = "rejected"
  /\ UNCHANGED <<filePaths, clock, copies>>
  /\ UNCHANGED notCopyFilesVars

(***************************************************************************)
(*                           STORAGE NAMES                                 *)
(***************************************************************************)
\* Names are sequences of characters; the words that the code looks for
\* ("info", "metadata", "thumbnail", "data", "dataz", ".zip") are one
\* character each.

\* Longest folder name of a resource.
MaxFolderLen == 3

FolderChars == {"x", "_", "info", "metadata", "thumbnail", "data", "dataz"}

\* The folder names of resources; "/" is not part of a folder name.
FolderNames == UNION {[1..n -> FolderChars] : n \in 1..MaxFolderLen}

FileNames == {<<"x">>, <<"x", ".zip">>, <<"metadata", ".zip">>}

\* The resource names: "file" or "folder/file".
ResourceNames ==
  FileNames \cup {folder \o <<"/">> \o file : folder \in FolderNames, file \in FileNames}

\* The value of a variable that destructuring found no element for.
Undefined == <<"undefined">>

\* text.split(sep)
RECURSIVE split(_, _)
split(text, sep) ==
  IF \A i \in 1..Len(text) : text[i] # sep
  THEN <<text>>
  ELSE LET p == CHOOSE i \in 1..Len(text) :
                  text[i] = sep /\ \A j \in 1..(i - 1) : text[j] # sep
       IN <<SubSeq(text, 1, p - 1)>> \o split(SubSeq(text, p + 1, Len(text)), sep)

\* text.endsWith(suffix)
endsWith(text, suffix) ==
  /\ Len(text) >= Len(suffix)
  /\ SubSeq(text, Len(text) - Len(suffix) + 1, Len(text)) = suffix

\* text.indexOf(char): the position, from 0, of the first char; -1 without one.
indexOf(text, char) ==
  IF \A i \in 1..Len(text) : text[i] # char
  THEN 0 - 1
  ELSE (CHOOSE i \in 1..Len(text) :
          text[i] = char /\ \A j \in 1..(i - 1) : text[j] # char) - 1

\* text.substr(start)
substr(text, start) == SubSeq(text, start + 1, Len(text))

\* filename.replace(/\.zip$/, "")
withoutZip(filename) ==
  IF endsWith(filename, <<".zip">>) THEN SubSeq(filename, 1, Len(filename) - 1)
  ELSE filename

\* generateResourceFilenameFromStorage(storageResourceFilename)
generateResourceFilenameFromStorage(storageResourceFilename) ==
  LET parts == split(storageResourceFilename, "/")
      folder == parts[1]
      filename == IF Len(parts) > 1 THEN parts[2] ELSE Undefined
      folderStart == indexOf(folder, "_")
  IN IF endsWith(folder, <<"_", "info", "_", "thumbnail">>)
       THEN [type |-> "Thumbnail", folder |-> folder, filename |-> filename]
     ELSE IF endsWith(folder, <<"_", "info", "_", "metadata">>)
       THEN [type |-> "Metadata", folder |-> folder, filename |-> <<"metadata", ".xml">>]
     ELSE IF endsWith(folder, <<"_", "info">>)
       THEN [type |-> "Info", folder |-> folder, filename |-> filename]
     ELSE IF endsWith(folder, <<"_", "info", "_", "data">>)
       THEN [type |-> "Data", folder |-> folder, filename |-> filename]
     ELSE IF endsWith(folder, <<"_", "info", "_", "dataz">>)
       THEN [type |-> "Data", folder |-> folder, filename |-> withoutZip(filename)]
     ELSE [type |-> "Resource",
           folder |-> IF folderStart > 0 THEN substr(folder, folderStart + 1) ELSE <<>>,
           filename |-> filename]

\* generateResourceStorageFilename(itemId, sourceResourceFilename, storageFolder)
generateResourceStorageFilename(itemId, sourceResourceFilename, storageFolder) ==
  LET folder == itemId \o (IF storageFolder # <<>> THEN <<"_">> \o storageFolder ELSE <<>>)
      sourceResourceFilenameParts == split(sourceResourceFilename, "/")
  IN IF Len(sourceResourceFilenameParts) > 1
     THEN [folder |-> folder \o <<"_">> \o sourceResourceFilenameParts[1],
           filename |-> sourceResourceFilenameParts[2]]
     ELSE [folder |-> folder, filename |-> sourceResourceFilename]

StorageNameIdle ==
  /\ storagePc = "idle"
  /\ resourceArgs = <<>>
  /\ storageFilename = <<>>
  /\ deployFilename = <<>>

\* An item and one of its resources.
StorageNameInit ==
  /\ storagePc = "source"
  /\ resourceArgs \in [itemId : ItemIdTexts, sourceResourceFilename : ResourceNames]
  /\ storageFilename = <<>>
  /\ deployFilename = <<>>

\* The resource is given its name in the storage item; storageFolder is left
\* at its default.
CallGenerateResourceStorageFilename ==
  /\ storagePc = "source"
  /\ storagePc' = "stored"
  /\ storageFilename' =
       generateResourceStorageFilename(resourceArgs.itemId,
                                       resourceArgs.sourceResourceFilename, <<>>)
  /\ UNCHANGED <<resourceArgs, deployFilename>>
  /\ UNCHANGED notStorageNameVars

\* The name in the storage item, folder + "/" + filename, is taken back to
\* the name for the deployed item.
CallGenerateResourceFilenameFromStorage ==
  /\ storagePc = "stored"
  /\ storagePc' = "restored"
  /\ deployFilename' =
       generateResourceFilenameFromStorage(
         storageFilename.folder \o <<"/">> \o storageFilename.filename)
  /\ UNCHANGED <<resourceArgs, storageFilename>>
  /\ UNCHANGED notStorageNameVars

(***************************************************************************)
(*                       copyFilesToStorageItem                            *)
(***************************************************************************)
\* Largest number of file paths of a call.
MaxStorageFiles == 3

\* Folder and filename under which a file is stored, as the storage name
\* functions make them.
SourceFilePaths ==
  [folder : {<<"a", "a">>, <<"a", "a", "_", "info", "_", "thumbnail">>},
   filename : {<<"x">>, <<"x", ".zip">>}]

SourceFilePathLists == UNION {[1..n -> SourceFilePaths] : n \in 0..MaxStorageFiles}

\* The name that is reported for a file that was copied.
storedName(filePath) == filePath.folder \o <<"/">> \o filePath.filename

ToStorageIdle ==
  /\ sourceFilePaths = <<>>
  /\ fileCopies = <<>>
  /\ toStorageResult = <<>>

ToStorageInit ==
  /\ sourceFilePaths \in SourceFilePathLists
  /\ fileCopies = <<>>
  /\ toStorageResult = [status |-> "notCalled", value |-> <<>>]

\* copyFilesToStorageItem is called: filePaths.map calls copyResource for
\* every file path, and Promise.all waits for the promises of the files.
CopyFilesToStorageItem ==
  /\ toStorageResult.status = "notCalled"
  /\ fileCopies' = [k \in 1..Len(sourceFilePaths) |->
                      [copyResource |-> "pending", settled |-> FALSE, value |-> <<>>]]
  /\ toStorageResult' = [toStorageResult EXCEPT !.status = "pending"]
  /\ UNCHANGED sourceFilePaths
  /\ UNCHANGED notToStorageVars

\* copyResource of file path k resolves: resolveThisFile(folder + "/" + filename).
CopyResourceResolves(k) ==
  /\ k \in 1..Len(fileCopies)
  /\ fileCopies[k].copyResource = "pending"
  /\ fileCopies' = [fileCopies EXCEPT ![k] = [copyResource |-> "resolved",
                                              settled |-> TRUE,
                                              value |-> storedName(sourceFilePaths[k])]]
  /\ UNCHANGED <<sourceFilePaths, toStorageResult>>
  /\ UNCHANGED notToStorageVars

CopyResourceRejectsUnnoticed(k) ==
  /\ k \in 1..Len(fileCopies)
  /\ fileCopies[k].copyResource = "pending"
  /\ fileCopies' = [fileCopies EXCEPT ![k] = [copyResource |-> "rejected",
                                              settled |-> TRUE,
                                              value |-> storedName(sourceFilePaths[k])]]
  /\ UNCHANGED <<sourceFilePaths, toStorageResult>>
  /\ UNCHANGED notToStorageVars

\* copyResource of file path k rejects: "Ignore failures because the item may
\* not have metadata or thumbnail", resolveThisFile("").
CopyResourceRejects(k) ==
  /\ k \in 1..Len(fileCopies)
  /\ fileCopies[k].copyResource = "pending"
  /\ fileCopies' = [fileCopies EXCEPT ![k] = [copyResource |-> "rejected",
                                              settled |-> TRUE,
                                              value |-> <<>>]]
  /\ UNCHANGED <<sourceFilePaths, toStorageResult>>
  /\ UNCHANGED notToStorageVars

\* Promise.all(awaitAllItems) resolves with the values of the files, in the
\* order of the file paths: resolve(r).
AllFilesSettled ==
  /\ toStorageResult.status = "pending"
  /\ \A k \in 1..Len(fileCopies) : fileCopies[k].settled
  /\ toStorageResult' = [status |-> "resolved",
                         value |-> [k \in 1..Len(fileCopies) |-> fileCopies[k].value]]
  /\ UNCHANGED <<sourceFilePaths, fileCopies>>
  /\ UNCHANGED notToStorageVars

(***************************************************************************)
(*                            deploySolution                               *)
(***************************************************************************)
\* _getSolutionTemplateItem, isSolutionTemplateItem and _updateDeployOptions
\* (deployerUtils) and _deploySolutionFromTemplate are not among the sources.
\* They are modelled as collaborators that settle with any outcome;
\* _updateDeployOptions keeps the progressCallback of the options, and
\* _deploySolutionFromTemplate reports percentages of its own, below 100,
\* through it (design document, section 5: progress is a side channel).

\* Largest number of progress calls that are followed.
MaxProgressCalls == 4

SolutionIds == {"sln1", "sln2"}

\* maybeModel: nothing, an item id, or a model with an item.
NoModel == [kind |-> "missing", id |-> ""]

MaybeModels == {NoModel} \cup [kind : {"id", "model"}, id : SolutionIds]

\* The errors that a collaborator rejects with.
CollaboratorErrors == {[message |-> "request failed", id |-> ""]}

\* common.fail("The Solution Template id is missing")
MissingIdError == [message |-> "The Solution Template id is missing", id |-> ""]

\* common.fail(`${model.item.id} is not a Solution Template`)
NotASolutionTemplateError(id) == [message |-> "is not a Solution Template", id |-> id]

\* The percentages that _deploySolutionFromTemplate reports.
DeploymentPercentages == {50}

NoError == [message |-> "", id |-> ""]

\* deployOptions.progressCallback(percent), when the options have one.
progressCallback(percent) ==
  IF solutionArgs.hasProgressCallback THEN Append(progressCalls, percent) ELSE progressCalls

SolutionIdle ==
  /\ solutionArgs = <<>>
  /\ solutionPc = "idle"
  /\ progressCalls = <<>>
  /\ invoked = {}
  /\ pendingError = <<>>
  /\ solutionResult = <<>>

SolutionInit ==
  /\ solutionArgs \in [maybeModel : MaybeModels, hasProgressCallback : BOOLEAN]
  /\ solutionPc = "notCalled"
  /\ progressCalls = <<>>
  /\ invoked = {}
  /\ pendingError = NoError
  /\ solutionResult = [status |-> "none", value |-> NoError]

DeploySolutionStartsAnyway ==
  /\ solutionPc = "notCalled"
  /\ progressCalls' = progressCallback(1)
  /\ invoked' = invoked \cup {"_getSolutionTemplateItem"}
  /\ solutionPc' = "getTemplateItem"
  /\ solutionResult' = [solutionResult EXCEPT !.status = "pending"]
  /\ UNCHANGED <<solutionArgs, pendingError>>
  /\ UNCHANGED notSolutionVars

\* deploySolution is called: "if we are not passed the maybeModel, reject";
\* otherwise "let the caller know that we've started" and
\* _getSolutionTemplateItem is called.
DeploySolution ==
  /\ solutionPc = "notCalled"
  /\ IF solutionArgs.maybeModel = NoModel
     THEN /\ solutionPc' = "settled"
          /\ solutionResult' = [status |-> "rejected", value |-> MissingIdError]
          /\ UNCHANGED <<progressCalls, invoked>>
     ELSE /\ progressCalls' = progressCallback(1)
          /\ invoked' = invoked \cup {"_getSolutionTemplateItem"}
          /\ solutionPc' = "getTemplateItem"
          /\ solutionResult' = [solutionResult EXCEPT !.status = "pending"]
  /\ UNCHANGED <<solutionArgs, pendingError>>
  /\ UNCHANGED notSolutionVars

\* _getSolutionTemplateItem resolves with the model of the item: an item that
\* is not a Solution Template is rejected, for a Solution Template
\* getItemMetadataAsFile is called.
GetSolutionTemplateItemResolves(isSolutionTemplateItem) ==
  /\ solutionPc = "getTemplateItem"
  /\ IF ~isSolutionTemplateItem
     THEN /\ pendingError' = NotASolutionTemplateError(solutionArgs.maybeModel.id)
          /\ solutionPc' = "failing"
          /\ UNCHANGED invoked
     ELSE /\ invoked' = invoked \cup {"getItemMetadataAsFile"}
          /\ solutionPc' = "getMetadata"
          /\ UNCHANGED pendingError
  /\ UNCHANGED <<solutionArgs, progressCalls, solutionResult>>
  /\ UNCHANGED notSolutionVars

\* _getSolutionTemplateItem rejects.
GetSolutionTemplateItemRejects(error) ==
  /\ solutionPc = "getTemplateItem"
  /\ pendingError' = error
  /\ solutionPc' = "failing"
  /\ UNCHANGED <<solutionArgs, progressCalls, invoked, solutionResult>>
  /\ UNCHANGED notSolutionVars

\* getItemMetadataAsFile resolves: item and data are sanitized and
\* _deploySolutionFromTemplate is called.
GetItemMetadataResolves ==
  /\ solutionPc = "getMetadata"
  /\ invoked' = invoked \cup {"_deploySolutionFromTemplate"}
  /\ solutionPc' = "deploying"
  /\ UNCHANGED <<solutionArgs, progressCalls, pendingError, solutionResult>>
  /\ UNCHANGED notSolutionVars

\* getItemMetadataAsFile rejects.
GetItemMetadataRejects(error) ==
  /\ solutionPc = "getMetadata"
  /\ pendingError' = error
  /\ solutionPc' = "failing"
  /\ UNCHANGED <<solutionArgs, progressCalls, invoked, solutionResult>>
  /\ UNCHANGED notSolutionVars

\* _deploySolutionFromTemplate reports a percentage of its own.
DeploymentReportsProgress(percent) ==
  /\ solutionPc = "deploying"
  /\ solutionArgs.hasProgressCallback
  /\ Len(progressCalls) < MaxProgressCalls
  /\ progressCalls' = progressCallback(percent)
  /\ UNCHANGED <<solutionArgs, solutionPc, invoked, pendingError, solutionResult>>
  /\ UNCHANGED notSolutionVars

DeploymentResolvesSilently(createdSolutionId) ==
  /\ solutionPc = "deploying"
  /\ solutionPc' = "settled"
  /\ solutionResult' = [status |-> "resolved", value |-> [message |-> "", id |-> createdSolutionId]]
  /\ UNCHANGED <<solutionArgs, progressCalls, invoked, pendingError>>
  /\ UNCHANGED notSolutionVars

\* _deploySolutionFromTemplate resolves with the id of the Solution created:
\* "we're done".
DeploymentResolves(createdSolutionId) ==
  /\ solutionPc = "deploying"
  /\ progressCalls' = progressCallback(100)
  /\ solutionPc' = "settled"
  /\ solutionResult' = [status |-> "resolved", value |-> [message |-> "", id |-> createdSolutionId]]
  /\ UNCHANGED <<solutionArgs, invoked, pendingError>>
  /\ UNCHANGED notSolutionVars

\* _deploySolutionFromTemplate rejects.
DeploymentRejects(error) ==
  /\ solutionPc = "deploying"
  /\ pendingError' = error
  /\ solutionPc' = "failing"
  /\ UNCHANGED <<solutionArgs, progressCalls, invoked, solutionResult>>
  /\ UNCHANGED notSolutionVars

\* "Error deploying solution": the rejection handler reports 1 and rejects
\* with the error; the catch throws it on.
ErrorDeployingSolution ==
  /\ solutionPc = "failing"
  /\ progressCalls' = progressCallback(1)
  /\ solutionPc' = "settled"
  /\ solutionResult' = [status |-> "rejected", value |-> pendingError]
  /\ UNCHANGED <<solutionArgs, invoked, pendingError>>
  /\ UNCHANGED notSolutionVars

(***************************************************************************)
(*               GROUP CONVERTER: group convertItemToTemplate              *)
(***************************************************************************)
\* common.createInitializedGroupTemplate, getGroupContents, getGroup and
\* getItemResources are not among the sources; the first is modelled as making
\* a template with the id of the group and nothing gathered yet, the others as
\* collaborators that settle with any outcome.  copyFilesToStorageItem is the
\* one modelled above.

\* Largest number of items of a group.
MaxContents == 1

\* Largest number of resources of an item.
MaxResources == 2

\* What is handed to copyFilesToStorageItem is at most the resources, the
\* metadata and the thumbnail.
MaxSourceFiles == MaxResources + 2

GroupInfos == [id : ItemIdTexts]

GroupContents == UNION {[1..n -> ItemIdTexts] : n \in 0..MaxContents}

\* What getGroup resolves with: the group, with or without a thumbnail.
GroupResponses == [thumbnail : {<<>>, <<"x">>}]

\* The resources of getItemResources' response, by name.
ResourceLists == UNION {[1..n -> {<<"x">>, <<"x", "/", "x", ".zip">>}] : n \in 0..MaxResources}

ConverterCollaborators ==
  <<"getGroupContents", "getGroup", "getItemResources", "copyFilesToStorageItem">>

NotSettled == [outcome |-> "none", value |-> <<>>]

\* generateMetadataStorageFilename(itemId)
generateMetadataStorageFilename(itemId) ==
  [folder |-> itemId \o <<"_", "info", "_", "metadata">>, filename |-> <<"metadata", ".xml">>]

\* generateThumbnailStorageFilename(itemId, thumbnailurl)
generateThumbnailStorageFilename(itemId, thumbnailurl) ==
  LET thumbnailUrlParts == split(thumbnailurl, "/")
  IN [folder |-> itemId \o <<"_", "info", "_", "thumbnail">>,
      filename |-> IF Len(thumbnailUrlParts) = 1 THEN thumbnailUrlParts[1]
                   ELSE thumbnailUrlParts[2]]

\* generateSourceFilePaths(portalSharingUrl, itemId, thumbnailUrlPart,
\* resourceFilenames, isGroup): the storage folder and filename of every
\* resource, of the metadata and, when there is one, of the thumbnail; the
\* urls are left out.
generateSourceFilePaths(itemId, thumbnailUrlPart, resourceFilenames) ==
  [k \in 1..Len(resourceFilenames) |->
     generateResourceStorageFilename(itemId, resourceFilenames[k], <<>>)]
  \o <<generateMetadataStorageFilename(itemId)>>
  \o (IF thumbnailUrlPart # <<>>
      THEN <<generateThumbnailStorageFilename(itemId, thumbnailUrlPart)>>
      ELSE <<>>)

\* (savedResourceFilenames as any[]).filter(item => !!item)
withoutEmpty(savedResourceFilenames) ==
  SelectSeq(savedResourceFilenames, LAMBDA item : item # <<>>)

\* The values of the copyFilesToStorageItem variables once it has been called
\* with the file paths: copyResource called for every file path, the promise pending.
copyFilesToStorageItemCalled(paths) ==
  [sourceFilePaths |-> paths,
   fileCopies |-> [k \in 1..Len(paths) |->
                     [copyResource |-> "pending", settled |-> FALSE, value |-> <<>>]],
   toStorageResult |-> [status |-> "pending", value |-> <<>>]]

\* copyFilesToStorageItem before a caller inside the model has called it.
ToStorageNotCalled ==
  /\ sourceFilePaths = <<>>
  /\ fileCopies = <<>>
  /\ toStorageResult = [status |-> "notCalled", value |-> <<>>]

\* The variables of the other parts of the model, which neither the converter
\* nor copyFilesToStorageItem touches.
notConverterNorToStorageVars == <<sortVars, resolverVars, replaceVars, templatizeVars, checkedVars, deployerVars, replayerVars, copyFilesVars, storageNameVars, solutionVars, storyMapVars, storeResourcesVars>>

ConverterIdle ==
  /\ converterArgs = <<>>
  /\ converterPc = "idle"
  /\ groupTemplate = <<>>
  /\ issued = <<>>
  /\ responses = <<>>
  /\ converterResult = <<>>

ConverterInit ==
  /\ converterArgs \in GroupInfos
  /\ converterPc = "notCalled"
  /\ groupTemplate = <<>>
  /\ issued = <<>>
  /\ responses = [name \in Range(ConverterCollaborators) |-> NotSettled]
  /\ converterResult = [status |-> "none", value |-> <<>>]

\* What a collaborator's settling is recorded as.
settledAs(name, outcome, value) ==
  [responses EXCEPT ![name] = [outcome |-> outcome, value |-> value]]

\* The converter is called: "Init template", "Templatize item info property
\* values", and getGroupContents is called.
ConvertGroupToTemplate ==
  /\ converterPc = "notCalled"
  /\ groupTemplate' =
       [itemId |-> converterArgs.id,
        type |-> "Group",
        item |-> [id |-> templatizeTerm(converterArgs.id, converterArgs.id, <<".itemId">>),
                  thumbnail |-> <<>>],
        dependencies |-> <<>>,
        resources |-> <<>>,
        estimatedDeploymentCostFactor |-> 2]
  /\ issued' = Append(issued, "getGroupContents")
  /\ converterPc' = "getGroupContents"
  /\ converterResult' = [converterResult EXCEPT !.status = "pending"]
  /\ UNCHANGED <<converterArgs, responses>>
  /\ UNCHANGED notConverterVars

\* getGroupContents resolves: "the group's items--its dependencies"; getGroup
\* is called.
GroupContentsResolve(groupContents) ==
  /\ converterPc = "getGroupContents"
  /\ groupTemplate' = [groupTemplate EXCEPT !.type = "Group", !.dependencies = groupContents]
  /\ responses' = settledAs("getGroupContents", "resolved", groupContents)
  /\ issued' = Append(issued, "getGroup")
  /\ converterPc' = "getGroup"
  /\ UNCHANGED <<converterArgs, converterResult>>
  /\ UNCHANGED notConverterVars

\* getGroupContents rejects: resolve(itemTemplate).
GroupContentsReject ==
  /\ converterPc = "getGroupContents"
  /\ responses' = settledAs("getGroupContents", "rejected", <<>>)
  /\ converterPc' = "settled"
  /\ converterResult' = [status |-> "resolved", value |-> groupTemplate]
  /\ UNCHANGED <<converterArgs, groupTemplate, issued>>
  /\ UNCHANGED notConverterVars

\* getGroup resolves: the group, under the templatized id, becomes the item of
\* the template; getItemResources is called.
GroupResolves(groupResponse) ==
  /\ converterPc = "getGroup"
  /\ groupTemplate' =
       [groupTemplate EXCEPT !.item = [id |-> groupTemplate.item.id,
                                      thumbnail |-> groupResponse.thumbnail]]
  /\ responses' = settledAs("getGroup", "resolved", groupResponse)
  /\ issued' = Append(issued, "getItemResources")
  /\ converterPc' = "getItemResources"
  /\ UNCHANGED <<converterArgs, converterResult>>
  /\ UNCHANGED notConverterVars

GroupRejectsConverter ==
  /\ converterPc = "getGroup"
  /\ responses' = settledAs("getGroup", "rejected", <<>>)
  /\ converterPc' = "settled"
  /\ converterResult' = [status |-> "rejected", value |-> <<>>]
  /\ UNCHANGED <<converterArgs, groupTemplate, issued>>
  /\ UNCHANGED notConverterVars

\* getGroup rejects: resolve(itemTemplate).
GroupRejects ==
  /\ converterPc = "getGroup"
  /\ responses' = settledAs("getGroup", "rejected", <<>>)
  /\ converterPc' = "settled"
  /\ converterResult' = [status |-> "resolved", value |-> groupTemplate]
  /\ UNCHANGED <<converterArgs, groupTemplate, issued>>
  /\ UNCHANGED notConverterVars

\* getItemResources resolves: "Save resources to solution item";
\* copyFilesToStorageItem is called with the file paths of the resources, the
\* metadata and the thumbnail.
GroupResourcesResolve(resources) ==
  /\ converterPc = "getItemResources"
  /\ toStorageResult.status = "notCalled"
  /\ groupTemplate' = [groupTemplate EXCEPT !.resources = resources]
  /\ responses' = settledAs("getItemResources", "resolved", resources)
  /\ issued' = Append(issued, "copyFilesToStorageItem")
  /\ converterPc' = "copyFilesToStorageItem"
  /\ LET called == copyFilesToStorageItemCalled(
                     generateSourceFilePaths(groupTemplate.itemId,
                                             groupTemplate.item.thumbnail, resources))
     IN /\ sourceFilePaths' = called.sourceFilePaths
        /\ fileCopies' = called.fileCopies
        /\ toStorageResult' = called.toStorageResult
  /\ UNCHANGED <<converterArgs, converterResult>>
  /\ UNCHANGED notConverterNorToStorageVars

\* getItemResources rejects: resolve(itemTemplate).
GroupResourcesReject ==
  /\ converterPc = "getItemResources"
  /\ responses' = settledAs("getItemResources", "rejected", <<>>)
  /\ converterPc' = "settled"
  /\ converterResult' = [status |-> "resolved", value |-> groupTemplate]
  /\ UNCHANGED <<converterArgs, groupTemplate, issued>>
  /\ UNCHANGED notConverterVars

\* copyFilesToStorageItem resolves: the names under which the files were
\* stored become the resources of the template; resolve(itemTemplate).  The
\* same then passes a rejection on, but copyFilesToStorageItem has none.
GroupFilesStored ==
  /\ converterPc = "copyFilesToStorageItem"
  /\ toStorageResult.status = "resolved"
  /\ groupTemplate' = [groupTemplate EXCEPT !.resources = withoutEmpty(toStorageResult.value)]
  /\ responses' = settledAs("copyFilesToStorageItem", "resolved", toStorageResult.value)
  /\ converterPc' = "settled"
  /\ converterResult' = [status |-> "resolved", value |-> groupTemplate']
  /\ UNCHANGED <<converterArgs, issued>>
  /\ UNCHANGED notConverterVars

(***************************************************************************)
(*                           createStoryMap                                *)
(***************************************************************************)
\* createStoryMap creates the item, keeps its id in the model, updates the
\* item with the re-interpolated model while it asks for the username, adds
\* the three well-known resources, moves the item into the folder and
\* resolves with the model.  The requests (createItem, updateItem,
\* getUsername, addItemResource, moveItem) settle with any outcome.

\* The names of the resources, in the order they are pushed.
WellKnownResources == <<"draftFileName", "oembed.json", "oembed.xml">>

StoryRequests ==
  {"createItem", "updateItem", "getUsername", "moveItem"} \cup Range(WellKnownResources)

Usernames == {<<"u">>, <<"v">>}

NotRequested == [outcome |-> "none", value |-> <<>>]

Requested == [outcome |-> "pending", value |-> <<>>]

\* What a failSafe function resolves with when the function it wraps fails.
Success == <<"success">>

unsafe(settled, resolveWith) == settled

\* failSafe(fn, resolveWith): the promise of fn, with a rejection turned into
\* a resolution with resolveWith.
failSafe(settled, resolveWith) ==
  IF settled.outcome = "rejected"
  THEN [outcome |-> "resolved", value |-> resolveWith]
  ELSE settled

\* Promise.all over the promises named: rejected as soon as one of them is,
\* resolved when all of them are.
promiseAll(promises) ==
  IF \E p \in DOMAIN promises : promises[p].outcome = "rejected" THEN "rejected"
  ELSE IF \A p \in DOMAIN promises : promises[p].outcome = "resolved" THEN "resolved"
  ELSE "pending"

\* The one rejection that Promise.all passes on is the first, which is the
\* only one at the time the chain hears of it.
rejectedOf(promises) ==
  CHOOSE p \in DOMAIN promises : promises[p].outcome = "rejected"

StoryMapIdle ==
  /\ storyModel = <<>>
  /\ storyPc = "idle"
  /\ storyResources = <<>>
  /\ storyIssued = <<>>
  /\ storyResponses = <<>>
  /\ storyResult = <<>>

StoryMapInit ==
  /\ storyModel = [id |-> <<>>, properties |-> TRUE]
  /\ storyPc = "notCalled"
  /\ storyResources = <<>>
  /\ storyIssued = <<>>
  /\ storyResponses = [request \in StoryRequests |-> NotRequested]
  /\ storyResult = [status |-> "none", value |-> <<>>]

\* createStoryMap is called: createItem with the serialized model.
CreateStoryMap ==
  /\ storyPc = "notCalled"
  /\ storyIssued' = Append(storyIssued, "createItem")
  /\ storyResponses' = [storyResponses EXCEPT !["createItem"] = Requested]
  /\ storyPc' = "createItem"
  /\ storyResult' = [status |-> "pending", value |-> <<>>]
  /\ UNCHANGED <<storyModel, storyResources>>
  /\ UNCHANGED notStoryMapVars

\* createItem resolves: the id is held in the model, the three resources are
\* generated, the properties hash is removed, and updateItem and getUsername
\* are called.
CreateItemResolves(id) ==
  /\ storyPc = "createItem"
  /\ storyModel' = [id |-> id, properties |-> FALSE]
  /\ storyResources' = WellKnownResources
  /\ storyIssued' = storyIssued \o <<"updateItem", "getUsername">>
  /\ storyResponses' = [storyResponses EXCEPT !["createItem"] = [outcome |-> "resolved", value |-> id],
                                              !["updateItem"] = Requested,
                                              !["getUsername"] = Requested]
  /\ storyPc' = "updateItem"
  /\ UNCHANGED storyResult
  /\ UNCHANGED notStoryMapVars

\* createItem rejects: no handler of the chain takes the rejection.
CreateItemRejects ==
  /\ storyPc = "createItem"
  /\ storyResponses' = [storyResponses EXCEPT !["createItem"] = [outcome |-> "rejected", value |-> <<>>]]
  /\ storyPc' = "settled"
  /\ storyResult' = [status |-> "rejected", value |-> "createItem"]
  /\ UNCHANGED <<storyModel, storyResources, storyIssued>>
  /\ UNCHANGED notStoryMapVars

\* updateItem or getUsername settles.  Promise.all of the two rejects with the
\* first rejection; when both have resolved the resources are added, each
\* through a failSafe addItemResource.  A request that settles after the chain
\* has rejected changes nothing.  The request is one that is pending.
UpdateSettles(request, outcome, value) ==
  /\ LET settled == [storyResponses EXCEPT ![request] = [outcome |-> outcome, value |-> value]]
         all == promiseAll([p \in {"updateItem", "getUsername"} |-> settled[p]])
     IN IF storyPc # "updateItem" \/ all = "pending"
        THEN /\ storyResponses' = settled
             /\ UNCHANGED <<storyPc, storyIssued, storyResult>>
        ELSE IF all = "rejected"
        THEN /\ storyResponses' = settled
             /\ storyPc' = "settled"
             /\ storyResult' = [status |-> "rejected", value |-> request]
             /\ UNCHANGED storyIssued
        ELSE /\ storyResponses' = [r \in StoryRequests |->
                                     IF r \in Range(storyResources) THEN Requested ELSE settled[r]]
             /\ storyIssued' = storyIssued \o storyResources
             /\ storyPc' = "addItemResource"
             /\ UNCHANGED storyResult
  /\ UNCHANGED <<storyModel, storyResources>>
  /\ UNCHANGED notStoryMapVars

UpdateItemResolves ==
  /\ storyResponses["updateItem"].outcome = "pending"
  /\ UpdateSettles("updateItem", "resolved", <<>>)

UpdateItemRejects ==
  /\ storyResponses["updateItem"].outcome = "pending"
  /\ UpdateSettles("updateItem", "rejected", <<>>)

GetUsernameResolves(username) ==
  /\ storyResponses["getUsername"].outcome = "pending"
  /\ UpdateSettles("getUsername", "resolved", username)

GetUsernameRejects ==
  /\ storyResponses["getUsername"].outcome = "pending"
  /\ UpdateSettles("getUsername", "rejected", <<>>)

\* addItemResource settles for one resource.  Promise.all of the failSafe
\* calls is settled when all of them are; then moveItem is called.
AddItemResourceSettles(name, outcome) ==
  /\ name \in Range(storyResources)
  /\ storyResponses[name].outcome = "pending"
  /\ LET settled == [storyResponses EXCEPT ![name] = [outcome |-> outcome, value |-> <<>>]]
         resourcePromises == [r \in Range(storyResources) |-> failSafe(settled[r], Success)]
         all == promiseAll(resourcePromises)
     IN IF storyPc # "addItemResource" \/ all = "pending"
        THEN /\ storyResponses' = settled
             /\ UNCHANGED <<storyPc, storyIssued, storyResult>>
        ELSE IF all = "rejected"
        THEN /\ storyResponses' = settled
             /\ storyPc' = "settled"
             /\ storyResult' = [status |-> "rejected", value |-> rejectedOf(resourcePromises)]
             /\ UNCHANGED storyIssued
        ELSE /\ storyResponses' = [settled EXCEPT !["moveItem"] = Requested]
             /\ storyIssued' = Append(storyIssued, "moveItem")
             /\ storyPc' = "moveItem"
             /\ UNCHANGED storyResult
  /\ UNCHANGED <<storyModel, storyResources>>
  /\ UNCHANGED notStoryMapVars

\* moveItem resolves: the chain resolves with the model.
MoveItemResolves ==
  /\ storyPc = "moveItem"
  /\ storyResponses' = [storyResponses EXCEPT !["moveItem"] = [outcome |-> "resolved", value |-> <<>>]]
  /\ storyPc' = "settled"
  /\ storyResult' = [status |-> "resolved", value |-> storyModel]
  /\ UNCHANGED <<storyModel, storyResources, storyIssued>>
  /\ UNCHANGED notStoryMapVars

\* moveItem rejects.
MoveItemRejects ==
  /\ storyPc = "moveItem"
  /\ storyResponses' = [storyResponses EXCEPT !["moveItem"] = [outcome |-> "rejected", value |-> <<>>]]
  /\ storyPc' = "settled"
  /\ storyResult' = [status |-> "rejected", value |-> "moveItem"]
  /\ UNCHANGED <<storyModel, storyResources, storyIssued>>
  /\ UNCHANGED notStoryMapVars

(***************************************************************************)
(*                         storeItemResources                              *)
(***************************************************************************)
\* storeItemResources asks for the resources of an item, hands their file
\* paths, the metadata's and the thumbnail's to copyFilesToStorageItem and
\* resolves with the names under which they were stored.  It exists twice:
\* in resourceHelpers.ts, inside a new Promise, and in
\* resources/store-item-resources.ts, as a chain of promises.
\* getItemResources settles with any outcome; copyFilesToStorageItem is the one
\* modelled above.

Implementations == {"resourceHelpers", "store-item-resources"}

TemplateTypes == {"Web Map", "StoryMap", "Web Experience"}

\* The id of the item whose resources are stored.
StoredItemId == [i \in 1..IdLen |-> "a"]

\* The resources an item can have, by name.
StoredResourceNames == {<<"x">>, <<"oembed.json">>, <<"images", "/", "x">>}

StoredResourceLists == UNION {[1..n -> StoredResourceNames] : n \in 0..MaxResources}

\* The filter of store-item-resources.ts: the resources of a StoryMap and of
\* a Web Experience that are not transferred.
transferred(type, res) ==
  /\ type = "StoryMap" =>
       /\ res \notin {<<"oembed.json">>, <<"oembed.xml">>}
       /\ ~(Len(res) >= 2 /\ res[1] = "draft_" /\ res[Len(res)] = ".json")
  /\ type = "Web Experience" =>
       /\ res # <<"config", "/", "config.json">>
       /\ ~(Len(res) >= 2 /\ res[1] = "images" /\ res[2] = "/")

\* The resources whose files an implementation copies.
itemResourcesOf(implementation, type, resources) ==
  IF implementation = "resourceHelpers" THEN resources
  ELSE SelectSeq(resources, LAMBDA res : transferred(type, res))

\* The variables of the other parts of the model, which neither
\* storeItemResources nor copyFilesToStorageItem touches.
notStoreResourcesNorToStorageVars == <<sortVars, resolverVars, replaceVars, templatizeVars, checkedVars, deployerVars, replayerVars, copyFilesVars, storageNameVars, solutionVars, converterVars, storyMapVars>>

StoreResourcesIdle ==
  /\ storeArgs = <<>>
  /\ storePc = "idle"
  /\ storeResponse = <<>>
  /\ storeResult = <<>>

StoreResourcesInit ==
  /\ storeArgs \in [implementation : Implementations,
                    type : TemplateTypes,
                    itemId : {StoredItemId},
                    thumbnail : {<<>>, <<"x">>}]
  /\ storePc = "notCalled"
  /\ storeResponse = NotSettled
  /\ storeResult = [status |-> "none", value |-> <<>>]

\* storeItemResources is called: getItemResources is called.
StoreItemResources ==
  /\ storePc = "notCalled"
  /\ storePc' = "getItemResources"
  /\ storeResult' = [status |-> "pending", value |-> <<>>]
  /\ UNCHANGED <<storeArgs, storeResponse>>
  /\ UNCHANGED notStoreResourcesVars

\* getItemResources resolves: copyFilesToStorageItem is called with the file
\* paths of the resources, the metadata and the thumbnail.
ItemResourcesResolve(resources) ==
  /\ storePc = "getItemResources"
  /\ toStorageResult.status = "notCalled"
  /\ storeResponse' = [outcome |-> "resolved", value |-> resources]
  /\ storePc' = "copyFilesToStorageItem"
  /\ LET itemResources == itemResourcesOf(storeArgs.implementation, storeArgs.type, resources)
         called == copyFilesToStorageItemCalled(
                     generateSourceFilePaths(storeArgs.itemId, storeArgs.thumbnail, itemResources))
     IN /\ sourceFilePaths' = called.sourceFilePaths
        /\ fileCopies' = called.fileCopies
        /\ toStorageResult' = called.toStorageResult
  /\ UNCHANGED <<storeArgs, storeResult>>
  /\ UNCHANGED notStoreResourcesNorToStorageVars

\* getItemResources rejects.  The chain of store-item-resources.ts passes the
\* rejection on; the then of resourceHelpers.ts has no rejection handler and
\* nothing calls the reject of the new Promise, which stays pending.
ItemResourcesReject ==
  /\ storePc = "getItemResources"
  /\ storeResponse' = [outcome |-> "rejected", value |-> <<>>]
  /\ storePc' = "settled"
  /\ storeResult' = IF storeArgs.implementation = "store-item-resources"
                    THEN [status |-> "rejected", value |-> <<>>]
                    ELSE storeResult
  /\ UNCHANGED storeArgs
  /\ UNCHANGED notStoreResourcesVars

\* copyFilesToStorageItem resolves: the promise resolves with the names that
\* are not empty.  copyFilesToStorageItem has no rejection.
ResourceFilesStored ==
  /\ storePc = "copyFilesToStorageItem"
  /\ toStorageResult.status = "resolved"
  /\ storePc' = "settled"
  /\ storeResult' = [status |-> "resolved", value |-> withoutEmpty(toStorageResult.value)]
  /\ UNCHANGED <<storeArgs, storeResponse>>
  /\ UNCHANGED notStoreResourcesVars

(***************************************************************************)
(*                            SPECIFICATIONS                               *)
(***************************************************************************)

\* No resolution takes place.
ResolverIdle == ResolverInit

\* The sequencer: an input is built, then sorted MaxRuns times.
InitSort == SortInit /\ ResolverIdle /\ ReplaceIdle /\ TemplatizeIdle /\ CheckedIdle /\ DeployerIdle /\ ReplayerIdle /\ CopyFilesIdle /\ StorageNameIdle /\ ToStorageIdle /\ SolutionIdle /\ ConverterIdle /\ StoryMapIdle /\ StoreResourcesIdle

NextSort ==
  \/ \E t \in ItemKeys, d \in ItemKeys : AddDependency(t, d)
  \/ SortStart
  \/ SortRemove
  \/ SortThrow
  \/ SortReturn

SpecSort == InitSort /\ [][NextSort]_vars

\* The resolver: the outside caller and the collaborators' completions, in
\* every order.
Init == ResolverInit /\ SortIdle /\ ReplaceIdle /\ TemplatizeIdle /\ CheckedIdle /\ DeployerIdle /\ ReplayerIdle /\ CopyFilesIdle /\ StorageNameIdle /\ ToStorageIdle /\ SolutionIdle /\ ConverterIdle /\ StoryMapIdle /\ StoreResourcesIdle

Next ==
  \/ \E itemId \in Ids : CallCreateItemTemplate(itemId)
  \/ \E c \in CallIndices : GetItemResolvesThumbnail(c)
  \/ \E c \in CallIndices : GetBlobResolves(c)
  \/ \E c \in CallIndices : GetBlobRejects(c)
  \/ \E c \in CallIndices : AddThumbnailSettles(c)
  \/ \E c \in CallIndices : GetItemResolvesUnsupported(c)
  \/ \E c \in CallIndices : GetItemResolvesSupported(c)
  \/ \E c \in CallIndices : GetItemRejects(c)
  \/ \E c \in CallIndices : GetGroupResolves(c)
  \/ \E c \in CallIndices : GetGroupRejects(c)
  \/ \E c \in CallIndices, deps \in DependencyLists : ConvertResolves(c, deps)
  \/ \E c \in CallIndices : ConvertRejects(c)
  \/ \E c \in CallIndices : DependenciesResolve(c)
  \/ \E c \in CallIndices : DependencyRejects(c)

Spec == Init /\ [][Next]_vars

\* One createItemTemplate call of the outside caller on an empty list, with
\* collaborators that settle: a call that waits for a collaborator or for its
\* dependencies is not left waiting for ever when it can go on.
CallCreateItemTemplateOnRoot(itemId) ==
  /\ rootCalls = 0
  /\ CallCreateItemTemplate(itemId)

\* What the settling of a collaborator call, or of the dependencies, makes
\* call c do.
CollaboratorSettles(c) ==
  \/ GetItemResolvesThumbnail(c)
  \/ GetBlobResolves(c)
  \/ GetBlobRejects(c)
  \/ AddThumbnailSettles(c)
  \/ GetItemResolvesUnsupported(c)
  \/ GetItemResolvesSupported(c)
  \/ GetItemRejects(c)
  \/ GetGroupResolves(c)
  \/ GetGroupRejects(c)
  \/ \E deps \in DependencyLists : ConvertResolves(c, deps)
  \/ ConvertRejects(c)
  \/ DependenciesResolve(c)
  \/ DependencyRejects(c)

NextSettling ==
  \/ \E itemId \in Ids : CallCreateItemTemplateOnRoot(itemId)
  \/ \E c \in CallIndices : CollaboratorSettles(c)

SpecSettling ==
  /\ Init
  /\ [][NextSettling]_vars
  /\ \A c \in CallIndices : WF_vars(CollaboratorSettles(c))

\* _replaceTemplate on its own: a list is built, then the function is called.
InitReplace == ReplaceInit /\ SortIdle /\ ResolverIdle /\ TemplatizeIdle /\ CheckedIdle /\ DeployerIdle /\ ReplayerIdle /\ CopyFilesIdle /\ StorageNameIdle /\ ToStorageIdle /\ SolutionIdle /\ ConverterIdle /\ StoryMapIdle /\ StoreResourcesIdle

NextReplace ==
  \/ \E entry \in ListEntries : PushTemplate(entry)
  \/ \E id \in Ids, template \in Replacements : CallReplaceTemplate(id, template)

SpecReplace == InitReplace /\ [][NextReplace]_vars

\* The id of a group: templatized when the group is converted, replaced when
\* the group is created from its template.
InitTemplatize == TemplatizeInit /\ SortIdle /\ ResolverIdle /\ ReplaceIdle /\ CheckedIdle /\ DeployerIdle /\ ReplayerIdle /\ CopyFilesIdle /\ StorageNameIdle /\ ToStorageIdle /\ SolutionIdle /\ ConverterIdle /\ StoryMapIdle /\ StoreResourcesIdle

NextTemplatize ==
  \/ ConvertItemToTemplate
  \/ CreateItemFromTemplate
  \/ \E newId \in ItemIdTexts : CreateGroupSucceeds(newId)
  \/ CreateGroupFails
  \/ CopyFilesResolve
  \/ CopyFilesReject

SpecTemplatize == InitTemplatize /\ [][NextTemplatize]_vars

\* _checkedReplaceAll on its own: called once with every argument.
InitChecked == CheckedInit /\ SortIdle /\ ResolverIdle /\ ReplaceIdle /\ TemplatizeIdle /\ DeployerIdle /\ ReplayerIdle /\ CopyFilesIdle /\ StorageNameIdle /\ ToStorageIdle /\ SolutionIdle /\ ConverterIdle /\ StoryMapIdle /\ StoreResourcesIdle

NextChecked == CallCheckedReplaceAll

SpecChecked == InitChecked /\ [][NextChecked]_vars

\* _getNewItemId and _updateGroupReferences on their own: one call.
InitDeployer ==
  /\ DeployerInit
  /\ SortIdle /\ ResolverIdle /\ ReplaceIdle /\ TemplatizeIdle /\ CheckedIdle /\ ReplayerIdle
  /\ CopyFilesIdle
  /\ StorageNameIdle
  /\ ToStorageIdle
  /\ SolutionIdle
  /\ ConverterIdle
  /\ StoryMapIdle
  /\ StoreResourcesIdle

NextDeployer ==
  \/ CallGetNewItemId
  \/ CallUpdateGroupReferences

SpecDeployer == InitDeployer /\ [][NextDeployer]_vars

\* The replayer: the templates of an order are created one after the other;
\* the collaborators complete with any outcome.
InitReplay ==
  /\ ReplayerInit
  /\ SortIdle /\ ResolverIdle /\ ReplaceIdle /\ TemplatizeIdle /\ CheckedIdle /\ DeployerIdle
  /\ CopyFilesIdle
  /\ StorageNameIdle
  /\ ToStorageIdle
  /\ SolutionIdle
  /\ ConverterIdle
  /\ StoryMapIdle
  /\ StoreResourcesIdle

DeployPositions == 1..MaxDeployTemplates

NextReplay ==
  \/ \E k \in DeployPositions : StartStep(k)
  \/ \E k \in DeployPositions : CreateGroupFailsInStep(k)
  \/ \E k \in DeployPositions, newId \in ItemIdTexts : CreateGroupSucceedsInStep(k, newId)
  \/ \E k \in DeployPositions : CopyFilesRejectsInStep(k)
  \/ \E k \in DeployPositions : CopyFilesResolvesInStep(k)
  \/ \E k \in DeployPositions : DeployAborts(k)
  \/ DeployCompletes

SpecReplay == InitReplay /\ [][NextReplay]_vars

\* One call of copyFilesFromStorageItem: the timers fire, the copies complete
\* with any outcome, time passes.
InitCopyFiles ==
  /\ CopyFilesInit
  /\ SortIdle /\ ResolverIdle /\ ReplaceIdle /\ TemplatizeIdle /\ CheckedIdle /\ DeployerIdle
  /\ ReplayerIdle
  /\ StorageNameIdle
  /\ ToStorageIdle
  /\ SolutionIdle
  /\ ConverterIdle
  /\ StoryMapIdle
  /\ StoreResourcesIdle

FilePositions == 1..MaxFiles

NextCopyFiles ==
  \/ CopyFilesFromStorageItem
  \/ \E ms \in ClockSteps : AdvanceTime(ms)
  \/ \E k \in FilePositions : TimerFires(k)
  \/ \E k \in FilePositions : CopyResolves(k)
  \/ \E k \in FilePositions : CopyRejects(k)
  \/ AllCopiesResolved
  \/ SomeCopyRejected

SpecCopyFiles == InitCopyFiles /\ [][NextCopyFiles]_vars

\* One resource name: made unique for the storage item, then taken back.
InitStorageName ==
  /\ StorageNameInit
  /\ SortIdle /\ ReplaceIdle /\ TemplatizeIdle /\ CheckedIdle /\ DeployerIdle
  /\ ReplayerIdle /\ CopyFilesIdle /\ ResolverIdle
  /\ ToStorageIdle
  /\ SolutionIdle
  /\ ConverterIdle
  /\ StoryMapIdle
  /\ StoreResourcesIdle

NextStorageName ==
  \/ CallGenerateResourceStorageFilename
  \/ CallGenerateResourceFilenameFromStorage

SpecStorageName == InitStorageName /\ [][NextStorageName]_vars

\* One call of copyFilesToStorageItem; every copyResource call completes with any outcome.
InitToStorage ==
  /\ ToStorageInit
  /\ SortIdle /\ ReplaceIdle /\ TemplatizeIdle /\ CheckedIdle /\ DeployerIdle
  /\ ReplayerIdle /\ CopyFilesIdle /\ StorageNameIdle /\ ResolverIdle
  /\ SolutionIdle
  /\ ConverterIdle
  /\ StoryMapIdle
  /\ StoreResourcesIdle

NextToStorage ==
  \/ CopyFilesToStorageItem
  \/ \E k \in 1..MaxStorageFiles : CopyResourceResolves(k)
  \/ \E k \in 1..MaxStorageFiles : CopyResourceRejects(k)
  \/ AllFilesSettled

SpecToStorage == InitToStorage /\ [][NextToStorage]_vars

\* One call of deploySolution; the collaborators settle with any outcome.
InitSolution ==
  /\ SolutionInit
  /\ SortIdle /\ ReplaceIdle /\ TemplatizeIdle /\ CheckedIdle /\ DeployerIdle
  /\ ReplayerIdle /\ CopyFilesIdle /\ StorageNameIdle /\ ToStorageIdle /\ ResolverIdle
  /\ ConverterIdle
  /\ StoryMapIdle
  /\ StoreResourcesIdle

NextSolution ==
  \/ DeploySolution
  \/ \E isSolutionTemplateItem \in BOOLEAN :
       GetSolutionTemplateItemResolves(isSolutionTemplateItem)
  \/ \E error \in CollaboratorErrors : GetSolutionTemplateItemRejects(error)
  \/ GetItemMetadataResolves
  \/ \E error \in CollaboratorErrors : GetItemMetadataRejects(error)
  \/ \E percent \in DeploymentPercentages : DeploymentReportsProgress(percent)
  \/ \E createdSolutionId \in SolutionIds : DeploymentResolves(createdSolutionId)
  \/ \E error \in CollaboratorErrors : DeploymentRejects(error)
  \/ ErrorDeployingSolution

SpecSolution == InitSolution /\ [][NextSolution]_vars

\* One call of the group converter; its collaborators settle with any outcome and copyFilesToStorageItem runs as modelled.
InitConverter ==
  /\ ConverterInit
  /\ ToStorageNotCalled
  /\ SortIdle /\ ReplaceIdle /\ TemplatizeIdle /\ CheckedIdle /\ DeployerIdle
  /\ ReplayerIdle /\ CopyFilesIdle /\ StorageNameIdle /\ SolutionIdle
  /\ ResolverIdle
  /\ StoryMapIdle
  /\ StoreResourcesIdle

NextConverter ==
  \/ ConvertGroupToTemplate
  \/ \E groupContents \in GroupContents : GroupContentsResolve(groupContents)
  \/ GroupContentsReject
  \/ \E groupResponse \in GroupResponses : GroupResolves(groupResponse)
  \/ GroupRejects
  \/ \E resources \in ResourceLists : GroupResourcesResolve(resources)
  \/ GroupResourcesReject
  \/ \E k \in 1..MaxSourceFiles : CopyResourceResolves(k)
  \/ \E k \in 1..MaxSourceFiles : CopyResourceRejects(k)
  \/ AllFilesSettled
  \/ GroupFilesStored

SpecConverter == InitConverter /\ [][NextConverter]_vars

\* One call of createStoryMap; every request settles with any outcome.
InitStoryMap ==
  /\ StoryMapInit
  /\ SortIdle /\ ReplaceIdle /\ TemplatizeIdle /\ CheckedIdle /\ DeployerIdle
  /\ ReplayerIdle /\ CopyFilesIdle /\ StorageNameIdle /\ ToStorageIdle /\ SolutionIdle
  /\ ConverterIdle /\ ResolverIdle
  /\ StoreResourcesIdle

NextStoryMap ==
  \/ CreateStoryMap
  \/ \E id \in ItemIdTexts : CreateItemResolves(id)
  \/ CreateItemRejects
  \/ UpdateItemResolves
  \/ UpdateItemRejects
  \/ \E username \in Usernames : GetUsernameResolves(username)
  \/ GetUsernameRejects
  \/ \E name \in Range(WellKnownResources), outcome \in {"resolved", "rejected"} :
       AddItemResourceSettles(name, outcome)
  \/ MoveItemResolves
  \/ MoveItemRejects

SpecStoryMap == InitStoryMap /\ [][NextStoryMap]_vars

\* One call of storeItemResources in either implementation; getItemResources settles with any outcome and copyFilesToStorageItem runs as modelled.
InitStoreResources ==
  /\ StoreResourcesInit
  /\ SortIdle /\ ReplaceIdle /\ TemplatizeIdle /\ CheckedIdle /\ DeployerIdle
  /\ ReplayerIdle /\ CopyFilesIdle /\ StorageNameIdle /\ ToStorageNotCalled /\ SolutionIdle
  /\ ConverterIdle /\ StoryMapIdle /\ ResolverIdle

NextStoreResources ==
  \/ StoreItemResources
  \/ \E resources \in StoredResourceLists : ItemResourcesResolve(resources)
  \/ ItemResourcesReject
  \/ \E k \in 1..MaxSourceFiles : CopyResourceResolves(k)
  \/ \E k \in 1..MaxSourceFiles : CopyResourceRejects(k)
  \/ AllFilesSettled
  \/ ResourceFilesStored

SpecStoreResources == InitStoreResources /\ [][NextStoreResources]_vars

(***************************************************************************)
(*                     CLAIMS ABOUT THE SEQUENCER                          *)
(***************************************************************************)

\* C1: for every acyclic input the sequencer returns a list in which every
\* dependency of an item that is itself a key of the input stands at a
\* strictly smaller index than the item.
DependenciesPrecedeDependents ==
  \A r \in Runs :
    (Finished(r) /\ Acyclic) =>
      /\ Returned(r)
      /\ \A t \in Keys : \A d \in keyedDependencies(t) :
            Before(results[r].list, d, t)

\* Test "sorts an item and its dependencies 2" with a dangling reference added:
\* abc -> [ghi, def], def -> [ghi, external id].
DependenciesPrecedeDependentsWitness ==
  /\ numItems = 3
  /\ dependencies[1] = {3, 2}
  /\ dependencies[2] = {3, 4}
  /\ dependencies[3] = {}
  /\ Returned(1)
  /\ results[1].list = <<3, 2, 1>>

\* C2: an input with a cycle of two or more items makes the sequencer throw;
\* no list, not even a partial one, is returned.
MultiItemCycleThrows ==
  \A r \in Runs :
    (Finished(r) /\ HasMultiItemCycle) =>
      /\ Thrown(r)
      /\ results[r].list = <<>>

\* Test "reports a multi-item cyclic dependency graph":
\* abc -> [ghi], def -> [ghi], ghi -> [abc].
MultiItemCycleThrowsWitness ==
  /\ numItems = 3
  /\ dependencies[1] = {3}
  /\ dependencies[2] = {3}
  /\ dependencies[3] = {1}
  /\ Thrown(1)

\* C3: an item that lists its own id among its dependencies makes the
\* sequencer throw, also when every other item is acyclic.
SelfCycleThrows ==
  \A r \in Runs :
    (Finished(r) /\ HasSelfCycle) =>
      /\ Thrown(r)
      /\ results[r].list = <<>>

\* Test "reports a single-item cyclic dependency graph": def -> [def].
SelfCycleThrowsWitness ==
  /\ numItems = 3
  /\ dependencies[1] = {}
  /\ dependencies[2] = {2}
  /\ dependencies[3] = {}
  /\ ~HasMultiItemCycle
  /\ Thrown(1)

\* C4: for every acyclic input the returned list is a permutation of the
\* input keys: every key exactly once, nothing else.
ResultIsPermutation ==
  \A r \in Runs :
    (Finished(r) /\ Acyclic) =>
      /\ Returned(r)
      /\ Len(results[r].list) = numItems
      /\ Range(results[r].list) = Keys

\* The diamond A -> [B, C], B -> [D], C -> [D]: four entries.
ResultIsPermutationWitness ==
  /\ numItems = 4
  /\ dependencies[1] = {2, 3}
  /\ dependencies[2] = {4}
  /\ dependencies[3] = {4}
  /\ dependencies[4] = {}
  /\ Returned(1)
  /\ Len(results[1].list) = 4

EmittedBefore(list, i) == {list[k] : k \in 1..(i - 1)}

Listed(list, id) == \E i \in 1..Len(list) : list[i].itemId = id

EntriesFor(id) == {i \in 1..Len(existingTemplates) : existingTemplates[i].itemId = id}

AllSettled == \A c \in 1..Len(calls) : calls[c].pc = "settled"

\* C7: in every reachable state, under every interleaving of the calls that
\* share the list, the list holds at most one entry per itemId.
OneEntryPerItemId ==
  \A i, j \in 1..Len(existingTemplates) :
    i # j => existingTemplates[i].itemId # existingTemplates[j].itemId

\* Items 1 and 2 were both requested by the outside caller, both depend on
\* item 3, every call has settled and the list holds one entry for item 3.
OneEntryPerItemIdWitness ==
  /\ AllSettled
  /\ \E a, b \in 1..Len(calls) :
       /\ calls[a].parent = 0 /\ calls[a].itemId = 1
       /\ calls[b].parent = 0 /\ calls[b].itemId = 2
  /\ \E i, j \in 1..Len(existingTemplates) :
       /\ existingTemplates[i].itemId = 1
       /\ 3 \in Range(existingTemplates[i].dependencies)
       /\ existingTemplates[j].itemId = 2
       /\ 3 \in Range(existingTemplates[j].dependencies)
  /\ Cardinality(EntriesFor(3)) = 1
  /\ \A i \in EntriesFor(3) : existingTemplates[i].type # ""

\* C8: for every id at most one createItemTemplate call gets past the check
\* of the list, so getItem and the converter are called at most once per id.
AtMostOneFetchAndConvertPerId ==
  \A id \in Ids :
    /\ Cardinality({c \in 1..Len(calls) : calls[c].itemId = id /\ ~calls[c].found}) <= 1
    /\ fetchCount[id] <= 1
    /\ convertCount[id] <= 1

\* The outside caller asked twice for the same id; the item was fetched once
\* and converted once.
AtMostOneFetchAndConvertPerIdWitness ==
  \E id \in Ids :
    /\ Cardinality({c \in 1..Len(calls) : calls[c].itemId = id /\ calls[c].parent = 0}) = 2
    /\ fetchCount[id] = 1
    /\ convertCount[id] = 1

\* C9: a createItemTemplate call for an id that has an entry in the list
\* (populated or placeholder) resolves at once, calls neither getItem nor a
\* converter, and leaves the list unchanged.
CallForListedIdDoesNothing ==
  [][\A id \in Ids :
       (CallCreateItemTemplate(id) /\ Listed(existingTemplates, id)) =>
         /\ existingTemplates' = existingTemplates
         /\ fetchCount' = fetchCount
         /\ groupFetchCount' = groupFetchCount
         /\ convertCount' = convertCount
         /\ Len(calls') = Len(calls) + 1
         /\ calls'[Len(calls')].itemId = id
         /\ calls'[Len(calls')].status = "resolved"
         /\ \A c \in 1..Len(calls) : calls'[c] = calls[c]]_vars

\* A call found the placeholder of a visit that is still waiting for getItem.
CallForListedIdDoesNothingWitness ==
  \E c, d \in 1..Len(calls) :
    /\ calls[c].found
    /\ calls[c].status = "resolved"
    /\ calls[d].itemId = calls[c].itemId
    /\ calls[d].pc = "getItem"
    /\ \E i \in 1..Len(existingTemplates) :
         existingTemplates[i] = createPlaceholderTemplate(calls[c].itemId)

\* C10: _replaceTemplate writes the template into the slot that held the id:
\* the length of the list and every other entry stay as they were and true is
\* returned; when the id is not in the list it returns false and changes nothing.
ReplaceKeepsSlot ==
  replacePc = "called" =>
    LET before == replaceArgs.templates IN
      IF Listed(before, replaceArgs.id)
      THEN /\ replaceReturn = TRUE
           /\ Len(templates) = Len(before)
           /\ \E i \in 1..Len(before) :
                /\ before[i].itemId = replaceArgs.id
                /\ templates[i] = replaceArgs.template
                /\ \A k \in 1..Len(before) : k # i => templates[k] = before[k]
      ELSE /\ replaceReturn = FALSE
           /\ templates = before

\* The placeholder in the first of three slots was replaced by its template.
ReplaceKeepsSlotWitness ==
  /\ replacePc = "called"
  /\ Len(replaceArgs.templates) = 3
  /\ replaceArgs.templates[1] = createPlaceholderTemplate(replaceArgs.id)
  /\ replaceArgs.template.itemId = replaceArgs.id
  /\ replaceReturn = TRUE
  /\ templates[1] = replaceArgs.template

\* The calls of the run that call c started: c, the calls it started for its
\* dependencies, and theirs.
RECURSIVE InRunOf(_, _)
InRunOf(d, c) ==
  \/ d = c
  \/ calls[d].parent # 0 /\ InRunOf(calls[d].parent, c)

\* The dependencies of the template the list holds for an id.
TemplateDependencies(id) ==
  UNION {Range(existingTemplates[i].dependencies) : i \in EntriesFor(id)}

\* Item a depends on item d, directly or through at most n templates of the list.
RECURSIVE DependsOnWithin(_, _, _)
DependsOnWithin(a, d, n) ==
  /\ n > 0
  /\ \/ d \in TemplateDependencies(a)
     \/ \E m \in TemplateDependencies(a) : DependsOnWithin(m, d, n - 1)

\* C11 as stated: the promise of a call does not settle until every recursive
\* call it started for a dependency has settled.
ParentSettlesAfterItsDependencies ==
  \A c \in 1..Len(calls) :
    calls[c].pc = "settled" =>
      \A d \in dependentDfds(c) : calls[d].pc = "settled"

\* C12 as stated: when the resolution of an item has failed, no item that
\* depends on it, directly or transitively, has its resolution reported as
\* successful.
FailureFailsEveryDependent ==
  \A d, a \in 1..Len(calls) :
    (calls[d].status = "rejected" /\ calls[a].status = "resolved" /\ ~calls[a].found) =>
      ~DependsOnWithin(calls[a].itemId, calls[d].itemId, MaxIds)

\* C13 as stated: when the call of the outside caller has rejected, the list
\* holds no entry, populated or placeholder, that the calls of this run added.
RejectedRunRetainsNothing ==
  \A c \in 1..Len(calls) :
    (calls[c].parent = 0 /\ calls[c].status = "rejected") =>
      \A d \in 1..Len(calls) :
        (InRunOf(d, c) /\ ~calls[d].found) =>
          ~Listed(existingTemplates, calls[d].itemId)

\* The item fetch of call c has failed: the call is past getItem and no item
\* was delivered.
ItemFetchFailed(c) ==
  /\ calls[c].pc # "getItem"
  /\ calls[c].itemInfo \in {"none", "group"}

\* C14: a failed item fetch is followed by exactly one fetch of the same id as
\* a group and by no other fetch; when the group fetch succeeds the id is
\* converted once, as a group, and its placeholder is replaced by the group's
\* template; when the group fetch fails too the call rejects.
GroupRetryExactlyOnce ==
  \A c \in 1..Len(calls) :
    ~calls[c].found =>
      LET id == calls[c].itemId IN
        /\ fetchCount[id] = 1
        /\ groupFetchCount[id] = IF ItemFetchFailed(c) THEN 1 ELSE 0
        /\ calls[c].itemInfo = "group" =>
             /\ convertCount[id] = 1
             /\ \A i \in EntriesFor(id) : existingTemplates[i].type \in {"", "Group"}
             /\ (calls[c].pc = "awaitDependencies" \/ calls[c].status = "resolved") =>
                  \E i \in EntriesFor(id) : existingTemplates[i].type = "Group"
        /\ calls[c].itemInfo # "group" =>
             \A i \in EntriesFor(id) : existingTemplates[i].type # "Group"
        /\ (ItemFetchFailed(c) /\ calls[c].itemInfo = "none" /\ calls[c].pc = "settled") =>
             /\ calls[c].status = "rejected"
             /\ convertCount[id] = 0

\* The item fetch failed for two ids: one was then fetched and converted as a
\* group and its call resolved, the group fetch of the other failed too and its
\* call rejected.
GroupRetryExactlyOnceWitness ==
  \E c, d \in 1..Len(calls) :
    /\ calls[c].itemInfo = "group"
    /\ calls[c].status = "resolved"
    /\ groupFetchCount[calls[c].itemId] = 1
    /\ \E i \in EntriesFor(calls[c].itemId) : existingTemplates[i].type = "Group"
    /\ ~calls[d].found
    /\ calls[d].itemInfo = "none"
    /\ calls[d].status = "rejected"
    /\ groupFetchCount[calls[d].itemId] = 1

\* C15 as stated: a call for an item whose type has no handler resolves, calls
\* no converter, traces no dependencies, and the list holds no entry for the
\* item when the call has settled.
UnsupportedTypeIsOmitted ==
  \A c \in 1..Len(calls) :
    (calls[c].itemInfo = "unsupported" /\ calls[c].pc = "settled") =>
      /\ calls[c].status = "resolved"
      /\ convertCount[calls[c].itemId] = 0
      /\ dependentDfds(c) = {}
      /\ ~Listed(existingTemplates, calls[c].itemId)

\* C16 as stated: after the call for an item tagged "deploy.thumbnail" has
\* settled the list holds no entry for its id, and no converter was called
\* for it.
ThumbnailItemIsNotAnEntry ==
  \A c \in 1..Len(calls) :
    (calls[c].itemInfo = "thumbnail" /\ calls[c].pc = "settled") =>
      /\ convertCount[calls[c].itemId] = 0
      /\ ~Listed(existingTemplates, calls[c].itemId)

\* C17: while createItemTemplate calls run, every step keeps the length of the
\* list or extends it, keeps the id of every slot, keeps every populated entry
\* as it is, and changes a placeholder only into the populated template of
\* its id: an entry is replaced at most once and never removed.
EntryLifecycle ==
  [][/\ Len(existingTemplates') >= Len(existingTemplates)
     /\ \A i \in 1..Len(existingTemplates) :
          /\ existingTemplates'[i].itemId = existingTemplates[i].itemId
          /\ existingTemplates[i].type # "" => existingTemplates'[i] = existingTemplates[i]
          /\ existingTemplates'[i] # existingTemplates[i] => existingTemplates'[i].type # ""
     /\ \A i \in (Len(existingTemplates) + 1)..Len(existingTemplates') :
          existingTemplates'[i] = createPlaceholderTemplate(existingTemplates'[i].itemId)]_vars

\* Item 1 is populated and depends on item 2; a later call for item 1 found it
\* in the list, and item 2 was populated after that call.
EntryLifecycleWitness ==
  /\ Len(existingTemplates) >= 2
  /\ existingTemplates[1].type # ""
  /\ existingTemplates[2].type # ""
  /\ existingTemplates[2].itemId \in Range(existingTemplates[1].dependencies)
  /\ \E c \in 1..Len(calls) :
       /\ calls[c].found
       /\ calls[c].itemId = existingTemplates[1].itemId
  /\ AllSettled

\* C18 as stated: when every call has settled and the calls of the outside
\* caller have resolved, no template in the list has its own itemId in its
\* dependencies.
NoSelfDependencyAfterSuccess ==
  (/\ AllSettled
   /\ \A c \in 1..Len(calls) : calls[c].parent = 0 => calls[c].status = "resolved") =>
    \A i \in 1..Len(existingTemplates) :
      existingTemplates[i].itemId \notin Range(existingTemplates[i].dependencies)

\* C34: for every item graph, cycles and self-references included, every
\* createItemTemplate call of a run on a root, the root's included, eventually
\* settles when every collaborator call settles.
EveryCallEventuallySettles ==
  \A c \in CallIndices :
    (c <= Len(calls)) ~> (c <= Len(calls) /\ calls[c].pc = "settled")

\* A run on a root has settled over two items that depend on each other, one
\* of which also depends on itself.
EveryCallEventuallySettlesWitness ==
  /\ calls # <<>>
  /\ AllSettled
  /\ \E a, b \in Ids :
       /\ a # b
       /\ Listed(existingTemplates, a) /\ Listed(existingTemplates, b)
       /\ b \in TemplateDependencies(a)
       /\ a \in TemplateDependencies(b)
       /\ a \in TemplateDependencies(a)

\* C35: when the createItemTemplate call on a root has resolved, no call of
\* its run is still in flight and every entry of the list for an item that has
\* a converter is populated, the entries of dependencies that a parent skipped
\* because another branch had reserved them included.
ResolvedRootLeavesNothingInFlight ==
  \A r \in 1..Len(calls) :
    (calls[r].parent = 0 /\ calls[r].status = "resolved") =>
      /\ \A d \in 1..Len(calls) : InRunOf(d, r) => calls[d].pc = "settled"
      /\ \A d \in 1..Len(calls) :
           (InRunOf(d, r) /\ calls[d].itemInfo \in {"supported", "group"}) =>
             \A i \in EntriesFor(calls[d].itemId) : existingTemplates[i].type # ""

\* The root has resolved in a run in which a call skipped a dependency that
\* another branch had reserved.
ResolvedRootLeavesNothingInFlightWitness ==
  /\ calls # <<>>
  /\ calls[1].parent = 0
  /\ calls[1].status = "resolved"
  /\ \E c, d \in 2..Len(calls) :
       /\ c # d
       /\ calls[d].parent # c
       /\ calls[d].itemId \in TemplateDependencies(calls[c].itemId)
       /\ calls[d].itemInfo \in {"supported", "group"}
       /\ calls[c].itemId \notin TemplateDependencies(calls[d].itemId)

(***************************************************************************)
(*                  CLAIMS ABOUT THE REFERENCE TEMPLATIZER                 *)
(***************************************************************************)

\* The occurrences of value in text that a replacement from the left takes:
\* an occurrence is taken unless it overlaps one taken before it.
TakenOccurrences(text, value) ==
  CHOOSE S \in SUBSET Occurrences(text, value) :
    \A p \in Occurrences(text, value) :
      p \in S <=> ~(\E q \in S : q < p /\ p < q + Len(value))

RECURSIVE ReplacedFrom(_, _, _, _, _)
ReplacedFrom(text, taken, oldLen, newValue, p) ==
  IF p > Len(text) THEN <<>>
  ELSE (IF p \in taken THEN newValue
        ELSE IF \E q \in taken : q < p /\ p < q + oldLen THEN <<>>
        ELSE <<text[p]>>)
       \o ReplacedFrom(text, taken, oldLen, newValue, p + 1)

\* C20: _checkedReplaceAll returns null for a null template, the template
\* itself when oldValue does not occur in it, and otherwise the template with
\* every occurrence of oldValue (taken from the left) replaced by newValue.
CheckedReplaceAllIsTotal ==
  checkedPc = "called" =>
    LET template == checkedArgs.template
        oldValue == checkedArgs.oldValue
        newValue == checkedArgs.newValue
    IN IF template = NullText THEN checkedReturn = NullText
       ELSE IF Occurrences(template, oldValue) = {} THEN checkedReturn = template
       ELSE LET taken == TakenOccurrences(template, oldValue) IN
              /\ checkedReturn = ReplacedFrom(template, taken, Len(oldValue), newValue, 1)
              /\ Len(checkedReturn) =
                   Len(template) + Cardinality(taken) * (Len(newValue) - Len(oldValue))

\* "two matches": oldValue stands twice in the template and both are replaced.
CheckedReplaceAllIsTotalWitness ==
  /\ checkedPc = "called"
  /\ checkedArgs.template = <<"a", "b", "a", "b">>
  /\ checkedArgs.oldValue = <<"b">>
  /\ checkedArgs.newValue = <<"M">>
  /\ checkedReturn = <<"a", "M", "a", "M">>

\* The text holds the placeholder of an item id.
HoldsPlaceholder(text) ==
  \E p \in 1..Len(text), key \in ItemIdTexts :
    OccursAt(text, placeholder(key, <<".itemId">>), p)

\* C21 as stated: no group is created from a text that still holds a
\* placeholder whose key has no entry in the template dictionary: the text
\* handed to createGroup holds no placeholder.
NoItemCreatedFromUnresolvedPlaceholder ==
  groupPc = "creating" => ~HoldsPlaceholder(newItemTemplate)

(***************************************************************************)
(*                     CLAIMS ABOUT THE DEPLOYMENT                         *)
(***************************************************************************)

\* C22: _getNewItemId returns the itemId of the dictionary's entry for
\* sourceId when there is one and sourceId itself when there is none, and
\* leaves the dictionary as it was.
GetNewItemIdLooksUpOrKeeps ==
  deployerPc = "gotNewItemId" =>
    LET id == deployerArgs.sourceId
        dict == deployerArgs.templateDictionary
    IN /\ (\E key \in DOMAIN dict : key = id) =>
            /\ deployerReturn.returned = dict[id].itemId
            /\ deployerReturn.returned \in NewGroupIds
       /\ (\A key \in DOMAIN dict : key # id) => deployerReturn.returned = id
       /\ deployerReturn.templateDictionary = dict

\* "handles id not found in template dictionary": the dictionary holds
\* entries for two other ids, and the id itself is returned.
GetNewItemIdLooksUpOrKeepsWitness ==
  /\ deployerPc = "gotNewItemId"
  /\ deployerArgs.sourceId = "xyz"
  /\ DOMAIN deployerArgs.templateDictionary = {"abc", "ghi"}
  /\ deployerReturn.returned = "xyz"

StepsInFlight == {k \in 1..Len(deployTemplates) : steps[k] \in {"creating", "copying"}}

DictionaryGrowsMonotonically ==
  [][dictionaryKeys(templateDict) \subseteq dictionaryKeys(templateDict')]_vars

\* A step has failed while the dictionary had entries.
DictionaryGrowsMonotonicallyWitness ==
  /\ \E k \in 1..Len(deployTemplates) : steps[k] \in {"createFailed", "copyFailed"}
  /\ dictionaryKeys(templateDict) # {}

\* C27: each dictionary key is written at most once during a run.
EachKeyWrittenAtMostOnce ==
  \A id \in DOMAIN dictionaryWrites : dictionaryWrites[id] <= 1

\* C28: the dictionary is written only when the creation call of the template
\* being processed has succeeded, and only under the key of that template; a
\* template whose creation has not succeeded has no entry.
DictionaryWrittenAfterCreation ==
  /\ [](\A k \in 1..Len(deployTemplates) :
          steps[k] \in {"pending", "creating", "createFailed"} =>
            templateDict[deployTemplates[k].itemId] = NoEntry)
  /\ [][\A id \in DOMAIN templateDict :
          templateDict'[id] # templateDict[id] =>
            \E k \in 1..Len(deployTemplates) :
              /\ deployTemplates[k].itemId = id
              /\ steps[k] = "creating"
              /\ steps'[k] = "copying"]_vars

\* The creation of one template has succeeded and that of the next has failed.
DictionaryWrittenAfterCreationWitness ==
  /\ Len(deployTemplates) >= 2
  /\ steps[1] = "done"
  /\ steps[2] = "createFailed"
  /\ templateDict[deployTemplates[1].itemId] # NoEntry

\* C29: the templates are read-only during deploy: no step changes a template
\* of the order, whether it succeeds or fails.
TemplatesAreReadOnly == [][deployTemplates' = deployTemplates]_vars

\* One step has succeeded with a copy that differs from its template, and one
\* has failed.
TemplatesAreReadOnlyWitness ==
  /\ \E k \in 1..Len(deployTemplates) :
       steps[k] = "done" /\ newItemTemplates[k].object # deployTemplates[k]
  /\ \E k \in 1..Len(deployTemplates) : steps[k] \in {"createFailed", "copyFailed"}

(***************************************************************************)
(*                CLAIMS ABOUT copyFilesFromStorageItem                    *)
(***************************************************************************)
\* C30: a fixed delay separates consecutive copy calls: the copy call of file
\* path k+1 is issued no sooner than msLag after the copy call of file path k.
LagBetweenConsecutiveCopyCalls ==
  \A k \in 1..(Len(copies) - 1) :
    (copies[k].issuedAt # NotIssued /\ copies[k + 1].issuedAt # NotIssued) =>
      copies[k + 1].issuedAt >= copies[k].issuedAt + msLag

\* C33: copyFilesFromStorageItem resolves (with true, its only value) only when
\* the copy of every file path has succeeded, rejects only when one has failed
\* and never resolves once one has; with an empty list it does not reject.
CopyFilesFromStorageItemAllOrNothing ==
  /\ copyFilesResult = "resolved" =>
       \A k \in 1..Len(filePaths) : copies[k].state = "resolved"
  /\ copyFilesResult = "rejected" =>
       \E k \in 1..Len(filePaths) : copies[k].state = "rejected"
  /\ (copyFilesResult \in {"pending", "resolved", "rejected"}
        /\ \E k \in 1..Len(filePaths) : copies[k].state = "rejected") =>
       copyFilesResult # "resolved"

\* The call has rejected after one copy succeeded and another failed.
CopyFilesFromStorageItemAllOrNothingWitness ==
  /\ copyFilesResult = "rejected"
  /\ \E j, k \in 1..Len(copies) :
       copies[j].state = "resolved" /\ copies[k].state = "rejected"

(***************************************************************************)
(*                     CLAIMS ABOUT STORAGE NAMES                          *)
(***************************************************************************)
\* The folder of a resource name, "" without one, and its file.
SourceFolder ==
  LET parts == split(resourceArgs.sourceResourceFilename, "/")
  IN IF Len(parts) > 1 THEN parts[1] ELSE <<>>

SourceFile ==
  LET parts == split(resourceArgs.sourceResourceFilename, "/")
  IN IF Len(parts) > 1 THEN parts[2] ELSE parts[1]

\* C31: storage-name round trip: the name taken back from the storage name of
\* a resource "file" or "folder/file" has the type Resource, the folder of the
\* resource ("" without one) and its file.
StorageNameRoundTrip ==
  storagePc = "restored" =>
    deployFilename = [type |-> "Resource", folder |-> SourceFolder, filename |-> SourceFile]

(***************************************************************************)
(*                 CLAIMS ABOUT copyFilesToStorageItem                     *)
(***************************************************************************)
\* C32: copyFilesToStorageItem never rejects; it resolves after every copy has
\* settled, with a list as long as filePaths and in their order, whose k-th
\* entry is folder + "/" + filename when the k-th copy succeeded and "" when
\* it failed.
CopyFilesToStorageItemNeverRejects ==
  /\ toStorageResult # <<>> => toStorageResult.status # "rejected"
  /\ (toStorageResult # <<>> /\ toStorageResult.status = "resolved") =>
       /\ Len(toStorageResult.value) = Len(sourceFilePaths)
       /\ \A k \in 1..Len(sourceFilePaths) :
            /\ fileCopies[k].copyResource \in {"resolved", "rejected"}
            /\ fileCopies[k].copyResource = "resolved" =>
                 toStorageResult.value[k] =
                   sourceFilePaths[k].folder \o <<"/">> \o sourceFilePaths[k].filename
            /\ fileCopies[k].copyResource = "rejected" => toStorageResult.value[k] = <<>>

\* The call has resolved after a copy that failed and a later one that
\* succeeded.
CopyFilesToStorageItemNeverRejectsWitness ==
  /\ toStorageResult # <<>>
  /\ toStorageResult.status = "resolved"
  /\ \E j, k \in 1..Len(fileCopies) :
       /\ j < k
       /\ fileCopies[j].copyResource = "rejected"
       /\ fileCopies[k].copyResource = "resolved"

(***************************************************************************)
(*                     CLAIMS ABOUT deploySolution                         *)
(***************************************************************************)
\* The positions of the progress calls that reported percent.
ProgressCallsOf(percent) == {i \in 1..Len(progressCalls) : progressCalls[i] = percent}

\* deploySolution was called with a progressCallback and got past the check of
\* maybeModel.
StartedWithCallback ==
  /\ solutionArgs.hasProgressCallback
  /\ solutionArgs.maybeModel # NoModel
  /\ solutionPc # "notCalled"

NoDeploymentForInvalidInput ==
  solutionPc \notin {"idle", "notCalled"} =>
    /\ solutionArgs.maybeModel = NoModel =>
         /\ solutionResult = [status |-> "rejected", value |-> MissingIdError]
         /\ progressCalls = <<>>
         /\ invoked = {}
    /\ pendingError.message = "is not a Solution Template" =>
         /\ pendingError.id = solutionArgs.maybeModel.id
         /\ "_deploySolutionFromTemplate" \notin invoked
         /\ solutionResult.status # "resolved"
         /\ solutionPc = "settled" =>
              solutionResult = [status |-> "rejected", value |-> pendingError]

\* The call has rejected for an item that is not a Solution Template.
NoDeploymentForInvalidInputWitness ==
  /\ solutionPc = "settled"
  /\ solutionResult.status = "rejected"
  /\ solutionResult.value.message = "is not a Solution Template"

(***************************************************************************)
(*                  CLAIMS ABOUT THE GROUP CONVERTER                       *)
(***************************************************************************)
\* C38: the group converter never rejects: when getGroupContents, getGroup or
\* getItemResources fails it resolves with the template built so far, with the
\* dependencies gathered before the failure; and the calls getGroupContents,
\* getGroup, getItemResources, copyFilesToStorageItem are made in that order,
\* each only after the one before it has succeeded.
GroupConverterNeverRejects ==
  converterPc # "idle" =>
    /\ converterResult.status # "rejected"
    /\ Len(issued) <= Len(ConverterCollaborators)
    /\ \A i \in 1..Len(issued) : issued[i] = ConverterCollaborators[i]
    /\ \A i \in 2..Len(issued) : responses[issued[i - 1]].outcome = "resolved"
    /\ \A name \in {"getGroupContents", "getGroup", "getItemResources"} :
         responses[name].outcome = "rejected" =>
           /\ converterResult = [status |-> "resolved", value |-> groupTemplate]
           /\ groupTemplate.resources = <<>>
           /\ groupTemplate.dependencies = responses["getGroupContents"].value
           /\ issued[Len(issued)] = name

\* getGroup has failed for a group whose contents had been gathered.
GroupConverterNeverRejectsWitness ==
  /\ converterPc = "settled"
  /\ responses["getGroup"].outcome = "rejected"
  /\ groupTemplate.dependencies # <<>>

(***************************************************************************)
(*                     CLAIMS ABOUT createStoryMap                         *)
(***************************************************************************)
\* The requests of createStoryMap in the order it makes them.
StoryRequestOrder ==
  <<"createItem", "updateItem", "getUsername">> \o WellKnownResources \o <<"moveItem">>

\* C39: createStoryMap creates the item, updates it, adds the three resources
\* and moves the item, in that order: updateItem is requested only after
\* createItem succeeded, the resources only after updateItem did, moveItem
\* only after all three uploads have settled; a failed upload does not make
\* createStoryMap reject, and a failure of createItem, updateItem or moveItem
\* does.
StoryMapStepsInOrder ==
  storyPc # "idle" =>
    /\ Len(storyIssued) <= Len(StoryRequestOrder)
    /\ \A i \in 1..Len(storyIssued) : storyIssued[i] = StoryRequestOrder[i]
    /\ "updateItem" \in Range(storyIssued) =>
         storyResponses["createItem"].outcome = "resolved"
    /\ \A name \in Range(WellKnownResources) :
         name \in Range(storyIssued) => storyResponses["updateItem"].outcome = "resolved"
    /\ "moveItem" \in Range(storyIssued) =>
         \A name \in Range(WellKnownResources) :
           storyResponses[name].outcome \in {"resolved", "rejected"}
    /\ storyResult.status = "rejected" =>
         /\ storyResult.value \in {"createItem", "updateItem", "getUsername", "moveItem"}
         /\ storyResponses[storyResult.value].outcome = "rejected"
    /\ \A request \in {"createItem", "updateItem", "moveItem"} :
         storyResponses[request].outcome = "rejected" => storyResult.status = "rejected"
    /\ storyResponses["moveItem"].outcome = "resolved" =>
         storyResult = [status |-> "resolved", value |-> storyModel]

\* createStoryMap has resolved although an upload failed.
StoryMapStepsInOrderWitness ==
  /\ storyPc = "settled"
  /\ storyResult.status = "resolved"
  /\ \E name \in Range(WellKnownResources) : storyResponses[name].outcome = "rejected"

(***************************************************************************)
(*                   CLAIMS ABOUT storeItemResources                       *)
(***************************************************************************)
\* C40: storeItemResources settles once its collaborators have: when
\* getItemResources fails the returned promise is rejected, not left pending,
\* and when it succeeds the promise is resolved with the names of the stored
\* resources, none of them empty; in both implementations.
StoreItemResourcesAlwaysSettles ==
  storePc = "settled" =>
    /\ storeResponse.outcome = "rejected" => storeResult.status = "rejected"
    /\ storeResponse.outcome = "resolved" =>
         /\ storeResult.status = "resolved"
         /\ \A i \in 1..Len(storeResult.value) : storeResult.value[i] # <<>>

====
